---- MODULE Spec2Model ----
(***************************************************************************)
(* State-machine model of the TODO core of PEC2_Ej3_Aplicacion_TODO:       *)
(* the Todo entity, its validation, and TodoService (the store) with its   *)
(* localStorage persistence and listener slots.                            *)
(*                                                                         *)
(* Strings that the code trims, measures or lower-cases are sequences of   *)
(* one-character strings.  Optional values (string | undefined,            *)
(* Date | undefined) are <<>> for undefined and <<v>> for a value.         *)
(* Dates are integers (epoch), ISO-8601 texts are records [iso |-> t].     *)
(***************************************************************************)
EXTENDS Integers, Sequences, FiniteSets, TLC

\* ----------------------------------------------------------------- bounds
\* Number of calls made to the service after its first construction.
MaxCalls == 2
\* Largest value of the wall clock.
MaxTime == 1
\* Number of changes a holder makes to the arrays one call has handed out.
MaxMutations == 1
\* Number of calls made to a service that starts from an empty store.
MaxLifecycleCalls == 4

\* ------------------------------------------------------ program constants
MAX_TEXT_LENGTH == 500
CURRENT_VERSION == "1.0"

PENDING == "pending"
COMPLETED == "completed"
ARCHIVED == "archived"
TodoStatus == {PENDING, COMPLETED, ARCHIVED}

LOW == "low"
MEDIUM == "medium"
HIGH == "high"
CRITICAL == "critical"
TodoPriority == {LOW, MEDIUM, HIGH, CRITICAL}

VALIDATION_FAILED == "VALIDATION_FAILED"
TODO_NOT_FOUND == "TODO_NOT_FOUND"
STORAGE_ERROR == "STORAGE_ERROR"
INVALID_DATA == "INVALID_DATA"
\* A plain Error (not a TodoError), as thrown by the Todo constructor.
PlainError == "Error"
NoError == "none"

\* ------------------------------------------------------- optional values
None == <<>>
Some(v) == <<v>>

\* ---------------------------------------------------------------- strings
Str(n, c) == [i \in 1..n |-> c]

IsSpace(c) == c \in {" ", "\t"}

\* String.prototype.trimStart and trimEnd
RECURSIVE TrimStart(_)
TrimStart(s) ==
    IF s = <<>> \/ ~IsSpace(s[1]) THEN s ELSE TrimStart(Tail(s))

RECURSIVE TrimEnd(_)
TrimEnd(s) ==
    IF s = <<>> \/ ~IsSpace(s[Len(s)]) THEN s
    ELSE TrimEnd(SubSeq(s, 1, Len(s) - 1))

\* String.prototype.trim
Trim(s) == TrimEnd(TrimStart(s))

LowerChar(c) ==
    CASE c = "A" -> "a"
      [] c = "B" -> "b"
      [] c = "D" -> "d"
      [] c = "X" -> "x"
      [] OTHER -> c

\* String.prototype.toLowerCase
ToLowerCase(s) == [i \in 1..Len(s) |-> LowerChar(s[i])]

\* The time value of an Invalid Date (NaN), as new Date(x) gives it for
\* a text it cannot parse and for an Invalid Date
InvalidDate == -1

\* JSON null
JSONnull == [null |-> TRUE]

Has(d, k) == k \in DOMAIN d

\* A text new Date(...) cannot parse
NotADate == [garbled |-> TRUE]

\* Date.prototype.toJSON (through JSON.stringify): the ISO text, null for
\* an Invalid Date; and new Date(text): the date of an ISO text, an
\* Invalid Date for any other text
ToISO(t) == IF t = InvalidDate THEN JSONnull ELSE [iso |-> t]
ParseISO(s) == IF Has(s, "iso") THEN s.iso ELSE InvalidDate

\* [...new Set(xs)]: first occurrences, in order
RECURSIVE Dedupe(_)
Dedupe(xs) ==
    IF xs = <<>> THEN <<>>
    ELSE LET init == Dedupe(SubSeq(xs, 1, Len(xs) - 1))
             x == xs[Len(xs)]
         IN IF \E i \in 1..Len(init) : init[i] = x THEN init ELSE Append(init, x)


\* ------------------------------------------------------------ Todo entity
\* ITodoData / ITodoUpdate are records whose fields may be missing.
\* Todo.validateData: every violation is accumulated.
validateData(data) ==
    LET text == IF Has(data, "text") THEN data.text ELSE <<>>
        e1 == IF text = <<>> \/ Len(Trim(text)) = 0
              THEN <<"Text is required and cannot be empty">> ELSE <<>>
        e2 == IF text # <<>> /\ Len(Trim(text)) > 500
              THEN <<"Text cannot exceed 500 characters">> ELSE <<>>
        e3 == IF Has(data, "description") /\ data.description # None
                 /\ data.description[1] # <<>>
                 /\ Len(Trim(data.description[1])) > 1000
              THEN <<"Description cannot exceed 1000 characters">> ELSE <<>>
        e4 == IF Has(data, "priority") /\ data.priority # ""
                 /\ data.priority \notin TodoPriority
              THEN <<"Invalid priority value">> ELSE <<>>
        e5 == IF Has(data, "status") /\ data.status # ""
                 /\ data.status \notin TodoStatus
              THEN <<"Invalid status value">> ELSE <<>>
        errors == e1 \o e2 \o e3 \o e4 \o e5
    IN [isValid |-> errors = <<>>, errors |-> errors]

\* Todo.constructor, after validation: a fresh id and fresh timestamps.
Todo(data, newId, t) ==
    [id |-> newId,
     createdAt |-> t,
     updatedAt |-> t,
     text |-> Trim(data.text),
     description |->
        IF Has(data, "description") /\ data.description # None
           /\ Trim(data.description[1]) # <<>>
        THEN Some(Trim(data.description[1])) ELSE None,
     complete |-> IF Has(data, "complete") THEN data.complete ELSE FALSE,
     status |->
        IF Has(data, "status") THEN data.status
        ELSE IF Has(data, "complete") /\ data.complete THEN COMPLETED ELSE PENDING,
     priority |-> IF Has(data, "priority") THEN data.priority ELSE MEDIUM,
     dueDate |-> IF Has(data, "dueDate") THEN data.dueDate ELSE None,
     tags |->
        IF Has(data, "tags")
        THEN Dedupe([i \in 1..Len(data.tags) |-> ToLowerCase(Trim(data.tags[i]))])
        ELSE <<>>]

\* A comparison with an Invalid Date is false.
isOverdue(todo, t) ==
    /\ todo.dueDate # None
    /\ todo.dueDate[1] # InvalidDate
    /\ t > todo.dueDate[1]
    /\ ~todo.complete
isPending(todo) == todo.status = PENDING /\ ~todo.complete

\* Todo.update: the fields given are set, the status follows a complete
\* flag that is given unless a status is given too, updatedAt is refreshed.
update(todo, updates, t) ==
    LET given(k) == Has(updates, k)
        status1 ==
            IF ~given("complete") THEN todo.status
            ELSE IF updates.complete /\ todo.status = PENDING THEN COMPLETED
            ELSE IF ~updates.complete /\ todo.status = COMPLETED THEN PENDING
            ELSE todo.status
    IN [id |-> todo.id,
        createdAt |-> todo.createdAt,
        updatedAt |-> t,
        text |-> IF given("text") THEN Trim(updates.text) ELSE todo.text,
        description |->
            IF given("description") /\ updates.description # None
            THEN (IF updates.description[1] # <<>>
                  THEN Some(Trim(updates.description[1])) ELSE None)
            ELSE todo.description,
        complete |-> IF given("complete") THEN updates.complete ELSE todo.complete,
        status |-> IF given("status") THEN updates.status ELSE status1,
        priority |-> IF given("priority") THEN updates.priority ELSE todo.priority,
        dueDate |->
            IF given("dueDate") /\ updates.dueDate # None
            THEN updates.dueDate ELSE todo.dueDate,
        tags |->
            IF given("tags")
            THEN Dedupe([i \in 1..Len(updates.tags) |->
                            ToLowerCase(Trim(updates.tags[i]))])
            ELSE todo.tags]
isCompleted(todo) == todo.complete /\ todo.status = COMPLETED

\* Todo.toJSON followed by JSON.stringify: undefined fields are omitted,
\* dates become ISO texts.
toJSON(todo, t) ==
    [id |-> todo.id,
     createdAt |-> ToISO(todo.createdAt),
     updatedAt |-> ToISO(todo.updatedAt),
     text |-> todo.text,
     complete |-> todo.complete,
     status |-> todo.status,
     priority |-> todo.priority,
     tags |-> todo.tags,
     isOverdue |-> isOverdue(todo, t),
     isPending |-> isPending(todo),
     isCompleted |-> isCompleted(todo)]
    @@ (IF todo.description # None
        THEN [description |-> todo.description[1]] ELSE <<>>)
    @@ (IF todo.dueDate # None
        THEN [dueDate |-> ToISO(todo.dueDate[1])] ELSE <<>>)

\* JSON.stringify(todos)
JSONstringify(ts, t) == [i \in 1..Len(ts) |-> toJSON(ts[i], t)]

\* What the Todo constructor reads from a record that came out of
\* JSON.parse: description and dueDate are present or missing, dueDate is
\* an ISO text handed to new Date(...) or null, which the constructor takes
\* for no dueDate.  id, createdAt and updatedAt of the record are not read
\* by the constructor.
DataOfRecord(rec) ==
    [k \in (DOMAIN rec) \ {"description", "dueDate"} |-> rec[k]]
    @@ (IF Has(rec, "description") THEN [description |-> Some(rec.description)] ELSE <<>>)
    @@ (IF Has(rec, "dueDate") /\ rec.dueDate # JSONnull
        THEN [dueDate |-> Some(ParseISO(rec.dueDate))] ELSE <<>>)

\* ------------------------------------------------------------ TodoService
VARIABLES
    todos,              \* TodoService.todos, the in-memory collection
    storage,            \* localStorage slot 'todos' (primary)
    onTodoListChanged,  \* the change-listener slot
    onTodoOperation,    \* the operation-listener slot
    backupStorage,      \* localStorage slot 'todos_backup' (secondary)
    nextId,             \* ids handed out so far + 1 (generateId never repeats)
    now,                \* the wall clock read by new Date()
    calls,              \* calls made to the service so far
    last                \* observation of the last call: arguments, outcome,
                        \* state before it, listener invocations

vars ==
    <<todos, storage, backupStorage, onTodoListChanged, onTodoOperation,
      nextId, now, calls, last>>

NoListener == "null"
Listeners == {"A", "B"}

\* Contents of a localStorage slot: no entry, the JSON text of an array,
\* a text JSON.parse rejects, the JSON text of a value that is not an array.
Absent == [kind |-> "absent"]
Stored(value) == [kind |-> "array", value |-> value]
NotJSON == [kind |-> "garbage"]
NotAnArray == [kind |-> "object"]

\* The state a call works on, threaded through the statements of a handler.
\* Arrays are objects: todosRef is the identity of the array this.todos
\* refers to (0 for the one it refers to when the call begins), nextRef the
\* identity of the next array the call creates.  todosRef is followed
\* through _commit, whose assignment is the last one before a call hands
\* an array to a listener.
Machine ==
    [todos |-> todos, storage |-> storage, backup |-> backupStorage,
     nextId |-> nextId,
     writes |-> 0, failedWrites |-> 0,
     changeLog |-> <<>>, opLog |-> <<>>, raised |-> NoError, ret |-> <<>>,
     todosRef |-> 0, nextRef |-> 1]

Raise(m, code) == [m EXCEPT !.raised = code]
Return(m, value) == [m EXCEPT !.ret = value]

\* _commit that notifies the change-listener before it writes the slot
_commit_NotifyBeforeWrite(m, ts, writeFails, listenerThrows) ==
    LET m1 == [m EXCEPT !.todos = ts, !.todosRef = m.nextRef,
                        !.nextRef = @ + 1]
        m2 == IF onTodoListChanged = NoListener THEN m1
              ELSE [m1 EXCEPT !.changeLog =
                      Append(@, [listener |-> onTodoListChanged,
                                 arg |-> ts,
                                 ref |-> m1.nextRef,
                                 sawTodos |-> m1.todos,
                                 sawStorage |-> m1.storage,
                                 threw |-> listenerThrows]),
                              !.nextRef = @ + 1]
        m3 == [m2 EXCEPT !.storage = Stored(JSONstringify(ts, now)),
                         !.writes = @ + 1]
    IN IF onTodoListChanged # NoListener /\ listenerThrows
       THEN Raise(m2, STORAGE_ERROR)
       ELSE IF writeFails
       THEN Raise([m2 EXCEPT !.failedWrites = @ + 1], STORAGE_ERROR)
       ELSE m3

\* _commit that hands the array of the collection itself to the
\* change-listener
_commit_HandsOutCollection(m, ts, writeFails, listenerThrows) ==
    LET m1 == [m EXCEPT !.todos = ts, !.todosRef = m.nextRef,
                        !.nextRef = @ + 1]
        m2 == [m1 EXCEPT !.storage = Stored(JSONstringify(ts, now)),
                         !.writes = @ + 1]
        m3 == [m2 EXCEPT !.changeLog =
                  Append(@, [listener |-> onTodoListChanged,
                             arg |-> m2.todos,
                             ref |-> m2.todosRef,
                             sawTodos |-> m2.todos,
                             sawStorage |-> m2.storage,
                             threw |-> listenerThrows])]
    IN IF writeFails
       THEN Raise([m1 EXCEPT !.failedWrites = @ + 1], STORAGE_ERROR)
       ELSE IF onTodoListChanged = NoListener THEN m2
       ELSE IF listenerThrows THEN Raise(m3, STORAGE_ERROR)
       ELSE m3

\* TodoService._commit.  writeFails: localStorage.setItem throws.
\* listenerThrows: the registered change-listener throws.  this.todos
\* becomes a new array, [...todos], and the change-listener is handed
\* another new array, [...todos].
_commit(m, ts, writeFails, listenerThrows) ==
    LET m1 == [m EXCEPT !.todos = ts, !.todosRef = m.nextRef,
                        !.nextRef = @ + 1]
        m2 == [m1 EXCEPT !.storage = Stored(JSONstringify(ts, now)),
                         !.writes = @ + 1]
        m3 == [m2 EXCEPT !.changeLog =
                  Append(@, [listener |-> onTodoListChanged,
                             arg |-> ts,
                             ref |-> m2.nextRef,
                             sawTodos |-> m2.todos,
                             sawStorage |-> m2.storage,
                             threw |-> listenerThrows]),
                         !.nextRef = @ + 1]
    IN IF writeFails
       THEN Raise([m1 EXCEPT !.failedWrites = @ + 1], STORAGE_ERROR)
       ELSE IF onTodoListChanged = NoListener THEN m2
       ELSE IF listenerThrows THEN Raise(m3, STORAGE_ERROR)
       ELSE m3

\* _notifyOperation that calls the operation-listener twice
_notifyOperation_Twice(m, todo, operation) ==
    IF onTodoOperation = NoListener THEN m
    ELSE LET entry == [listener |-> onTodoOperation, todo |-> todo,
                       operation |-> operation,
                       commits |-> Len(m.changeLog),
                       writes |-> m.writes]
         IN [m EXCEPT !.opLog = Append(Append(@, entry), entry)]

\* TodoService._notifyOperation.  An entry of opLog holds what the
\* operation-listener was called with and how many invocations of the
\* change-listener and how many writes of the slot the call had made by then.
_notifyOperation(m, todo, operation) ==
    IF onTodoOperation = NoListener THEN m
    ELSE [m EXCEPT !.opLog =
             Append(@, [listener |-> onTodoOperation, todo |-> todo,
                        operation |-> operation,
                        commits |-> Len(m.changeLog),
                        writes |-> m.writes])]

\* _validateTodoText without the checks of the trimmed text
_validateTodoText_NoTrimChecks(text) ==
    IF text = <<>> THEN VALIDATION_FAILED ELSE NoError

\* TodoService._validateTodoText: the error code it throws, or NoError.
_validateTodoText(text) ==
    IF text = <<>> THEN VALIDATION_FAILED
    ELSE IF Len(Trim(text)) = 0 THEN VALIDATION_FAILED
    ELSE IF Len(Trim(text)) > MAX_TEXT_LENGTH THEN VALIDATION_FAILED
    ELSE NoError

\* TodoService._findTodoById: index of the first todo with the id, 0 if none
_findTodoById(ts, id) ==
    IF \E i \in 1..Len(ts) : ts[i].id = id
    THEN CHOOSE i \in 1..Len(ts) :
            ts[i].id = id /\ \A j \in 1..(i - 1) : ts[j].id # id
    ELSE 0

\* addTodo that reports the new todo to the operation-listener before it
\* commits
addTodo_NotifiesBeforeCommit(m, text, priority, writeFails, listenerThrows) ==
    IF _validateTodoText(text) # NoError THEN Raise(m, _validateTodoText(text))
    ELSE LET data == [text |-> Trim(text), priority |-> priority]
         IN IF ~validateData(data).isValid THEN Raise(m, PlainError)
            ELSE LET newTodo == Todo(data, m.nextId, now)
                     m1 == [m EXCEPT !.nextId = @ + 1,
                                     !.todos = Append(@, newTodo)]
                     m2 == _commit(_notifyOperation(m1, newTodo, "add"),
                                   m1.todos, writeFails, listenerThrows)
                 IN IF m2.raised # NoError THEN m2 ELSE Return(m2, newTodo)

\* addTodo that puts the new todo in front
addTodo_Unshift(m, text, priority, writeFails, listenerThrows) ==
    IF _validateTodoText(text) # NoError THEN Raise(m, _validateTodoText(text))
    ELSE LET data == [text |-> Trim(text), priority |-> priority]
         IN IF ~validateData(data).isValid THEN Raise(m, PlainError)
            ELSE LET newTodo == Todo(data, m.nextId, now)
                     m1 == [m EXCEPT !.nextId = @ + 1,
                                     !.todos = <<newTodo>> \o @]
                     m2 == _commit(m1, m1.todos, writeFails, listenerThrows)
                 IN IF m2.raised # NoError THEN m2
                    ELSE Return(_notifyOperation(m2, newTodo, "add"), newTodo)

\* TodoService.addTodo
addTodo(m, text, priority, writeFails, listenerThrows) ==
    IF _validateTodoText(text) # NoError THEN Raise(m, _validateTodoText(text))
    ELSE LET data == [text |-> Trim(text), priority |-> priority]
         IN IF ~validateData(data).isValid THEN Raise(m, PlainError)
            ELSE LET newTodo == Todo(data, m.nextId, now)
                     m1 == [m EXCEPT !.nextId = @ + 1,
                                     !.todos = Append(@, newTodo)]
                     m2 == _commit(m1, m1.todos, writeFails, listenerThrows)
                 IN IF m2.raised # NoError THEN m2
                    ELSE Return(_notifyOperation(m2, newTodo, "add"), newTodo)

\* updateTodo that builds the updated todo without the validation of the
\* Todo constructor
updateTodo_NoEntityValidation(m, id, updates, writeFails, listenerThrows) ==
    LET k == _findTodoById(m.todos, id)
    IN IF k = 0 THEN Raise(m, TODO_NOT_FOUND)
       ELSE IF Has(updates, "text") /\ _validateTodoText(updates.text) # NoError
       THEN Raise(m, _validateTodoText(updates.text))
       ELSE
         LET todo == m.todos[k]
             data == [text |-> IF Has(updates, "text") /\ Trim(updates.text) # <<>>
                               THEN Trim(updates.text) ELSE todo.text]
                     @@ updates @@ todo
             updatedTodo == Todo(data, m.nextId, now)
             m1 == [m EXCEPT
                      !.nextId = @ + 1,
                      !.todos = [i \in 1..Len(m.todos) |->
                                   IF m.todos[i].id = id
                                   THEN updatedTodo ELSE m.todos[i]]]
             m2 == _commit(m1, m1.todos, writeFails, listenerThrows)
         IN IF m2.raised # NoError THEN m2
            ELSE Return(_notifyOperation(m2, updatedTodo, "update"),
                        updatedTodo)

\* TodoService.updateTodo
updateTodo(m, id, updates, writeFails, listenerThrows) ==
    LET k == _findTodoById(m.todos, id)
    IN IF k = 0 THEN Raise(m, TODO_NOT_FOUND)
       ELSE IF Has(updates, "text") /\ _validateTodoText(updates.text) # NoError
       THEN Raise(m, _validateTodoText(updates.text))
       ELSE
         LET todo == m.todos[k]
             data == [text |-> IF Has(updates, "text") /\ Trim(updates.text) # <<>>
                               THEN Trim(updates.text) ELSE todo.text]
                     @@ updates @@ todo
         IN IF ~validateData(data).isValid THEN Raise(m, PlainError)
            ELSE LET updatedTodo == Todo(data, m.nextId, now)
                     m1 == [m EXCEPT
                              !.nextId = @ + 1,
                              !.todos = [i \in 1..Len(m.todos) |->
                                           IF m.todos[i].id = id
                                           THEN updatedTodo ELSE m.todos[i]]]
                     m2 == _commit(m1, m1.todos, writeFails, listenerThrows)
                 IN IF m2.raised # NoError THEN m2
                    ELSE Return(_notifyOperation(m2, updatedTodo, "update"),
                                updatedTodo)

\* deleteTodo that commits also when the id is not found
deleteTodo_CommitsAnyway(m, id, writeFails, listenerThrows) ==
    LET k == _findTodoById(m.todos, id)
        keep(t) == t.id # id
        m1 == [m EXCEPT !.todos = SelectSeq(@, keep)]
        m2 == _commit(m1, m1.todos, writeFails, listenerThrows)
    IN IF m2.raised # NoError THEN m2
       ELSE IF k = 0 THEN Return(m2, FALSE)
       ELSE Return(_notifyOperation(m2, m.todos[k], "delete"), TRUE)

\* TodoService.deleteTodo
deleteTodo(m, id, writeFails, listenerThrows) ==
    LET k == _findTodoById(m.todos, id)
    IN IF k = 0 THEN Return(m, FALSE)
       ELSE LET todo == m.todos[k]
                keep(t) == t.id # id
                m1 == [m EXCEPT !.todos = SelectSeq(@, keep)]
                m2 == _commit(m1, m1.todos, writeFails, listenerThrows)
            IN IF m2.raised # NoError THEN m2
               ELSE Return(_notifyOperation(m2, todo, "delete"), TRUE)

\* toggleTodo that passes the status the item has to have, and none for an
\* item that becomes incomplete
toggleTodo_CompletedOnly(m, id, writeFails, listenerThrows) ==
    LET k == _findTodoById(m.todos, id)
    IN IF k = 0 THEN Raise(m, TODO_NOT_FOUND)
       ELSE LET todo == m.todos[k]
            IN updateTodo(m, id,
                          IF ~todo.complete
                          THEN [complete |-> TRUE, status |-> COMPLETED]
                          ELSE [complete |-> FALSE],
                          writeFails, listenerThrows)

\* toggleTodo that flips complete and leaves the status to the constructor
toggleTodo_CompleteOnly(m, id, writeFails, listenerThrows) ==
    LET k == _findTodoById(m.todos, id)
    IN IF k = 0 THEN Raise(m, TODO_NOT_FOUND)
       ELSE updateTodo(m, id, [complete |-> ~m.todos[k].complete],
                       writeFails, listenerThrows)

\* TodoService.toggleTodo
toggleTodo(m, id, writeFails, listenerThrows) ==
    LET k == _findTodoById(m.todos, id)
    IN IF k = 0 THEN Raise(m, TODO_NOT_FOUND)
       ELSE LET todo == m.todos[k]
            IN updateTodo(m, id,
                          [complete |-> ~todo.complete,
                           status |-> IF ~todo.complete THEN COMPLETED ELSE PENDING],
                          writeFails, listenerThrows)

\* The loop of addMultipleTodos: the todos built from the valid texts, in
\* input order; invalid texts are skipped.
RECURSIVE NewTodosOf(_, _)
NewTodosOf(texts, firstId) ==
    IF texts = <<>> THEN <<>>
    ELSE IF _validateTodoText(Head(texts)) # NoError
            \/ ~validateData([text |-> Trim(Head(texts))]).isValid
         THEN NewTodosOf(Tail(texts), firstId)
         ELSE <<Todo([text |-> Trim(Head(texts))], firstId, now)>>
              \o NewTodosOf(Tail(texts), firstId + 1)

\* newTodos.forEach / todosToDelete.forEach (todo => _notifyOperation(...))
RECURSIVE NotifyEach(_, _, _)
NotifyEach(m, ts, operation) ==
    IF ts = <<>> THEN m
    ELSE NotifyEach(_notifyOperation(m, Head(ts), operation), Tail(ts), operation)

\* addMultipleTodos that does not commit when no text was accepted
addMultipleTodos_SkipsEmptyCommit(m, texts, writeFails, listenerThrows) ==
    LET newTodos == NewTodosOf(texts, m.nextId)
        m1 == [m EXCEPT !.nextId = @ + Len(newTodos),
                        !.todos = @ \o newTodos]
        m2 == _commit(m1, m1.todos, writeFails, listenerThrows)
    IN IF newTodos = <<>> THEN Return(m, <<>>)
       ELSE IF m2.raised # NoError THEN m2
       ELSE Return(NotifyEach(m2, newTodos, "add"), newTodos)

\* TodoService.addMultipleTodos
addMultipleTodos(m, texts, writeFails, listenerThrows) ==
    LET newTodos == NewTodosOf(texts, m.nextId)
        m1 == [m EXCEPT !.nextId = @ + Len(newTodos),
                        !.todos = @ \o newTodos]
        m2 == _commit(m1, m1.todos, writeFails, listenerThrows)
    IN IF m2.raised # NoError THEN m2
       ELSE Return(NotifyEach(m2, newTodos, "add"), newTodos)

\* deleteMultipleTodos that does not commit when no id matched
deleteMultipleTodos_SkipsEmptyCommit(m, ids, writeFails, listenerThrows) ==
    LET initialLength == Len(m.todos)
        gone(t) == t.id \in ids
        kept(t) == t.id \notin ids
        todosToDelete == SelectSeq(m.todos, gone)
        m1 == [m EXCEPT !.todos = SelectSeq(@, kept)]
        m2 == _commit(m1, m1.todos, writeFails, listenerThrows)
    IN IF todosToDelete = <<>> THEN Return(m, 0)
       ELSE IF m2.raised # NoError THEN m2
       ELSE Return(NotifyEach(m2, todosToDelete, "delete"),
                   initialLength - Len(m2.todos))

\* TodoService.deleteMultipleTodos
deleteMultipleTodos(m, ids, writeFails, listenerThrows) ==
    LET initialLength == Len(m.todos)
        gone(t) == t.id \in ids
        kept(t) == t.id \notin ids
        todosToDelete == SelectSeq(m.todos, gone)
        m1 == [m EXCEPT !.todos = SelectSeq(@, kept)]
        m2 == _commit(m1, m1.todos, writeFails, listenerThrows)
    IN IF m2.raised # NoError THEN m2
       ELSE Return(NotifyEach(m2, todosToDelete, "delete"),
                   initialLength - Len(m2.todos))

\* TodoService.updateMultipleTodos: every updateTodo commits on its own and
\* whatever it throws is caught and logged.  failing / throwing: the
\* positions of the updates whose write fails / whose listener call throws.
RECURSIVE updateMultipleTodos(_, _, _, _, _)
updateMultipleTodos(m, updates, n, failing, throwing) ==
    IF n > Len(updates) THEN m
    ELSE LET r == updateTodo(Return(m, <<>>), updates[n].id, updates[n].data,
                             n \in failing, n \in throwing)
             next == IF r.raised # NoError
                     THEN [r EXCEPT !.raised = NoError, !.ret = m.ret]
                     ELSE [r EXCEPT !.ret = Append(m.ret, r.ret)]
         IN updateMultipleTodos(next, updates, n + 1, failing, throwing)

\* toggleAll that sets the status only
toggleAll_StatusOnly(m, complete, failing, throwing) ==
    LET updates == [i \in 1..Len(m.todos) |->
                      [id |-> m.todos[i].id,
                       data |-> [status |-> IF complete THEN COMPLETED ELSE PENDING]]]
    IN updateMultipleTodos(Return(m, <<>>), updates, 1, failing, throwing)

\* toggleAll that sets complete only
toggleAll_CompleteOnly(m, complete, failing, throwing) ==
    LET updates == [i \in 1..Len(m.todos) |->
                      [id |-> m.todos[i].id, data |-> [complete |-> complete]]]
    IN updateMultipleTodos(Return(m, <<>>), updates, 1, failing, throwing)

\* TodoService.toggleAll
toggleAll(m, complete, failing, throwing) ==
    LET updates == [i \in 1..Len(m.todos) |->
                      [id |-> m.todos[i].id,
                       data |-> [complete |-> complete,
                                 status |-> IF complete THEN COMPLETED ELSE PENDING]]]
    IN updateMultipleTodos(Return(m, <<>>), updates, 1, failing, throwing)

\* clearCompleted that removes the todos whose status is Completed
clearCompleted_ByStatus(m, writeFails, listenerThrows) ==
    LET completed == SelectSeq(m.todos, isCompleted)
        completedIds == {completed[i].id : i \in 1..Len(completed)}
    IN deleteMultipleTodos(m, completedIds, writeFails, listenerThrows)

\* TodoService.clearCompleted
clearCompleted(m, writeFails, listenerThrows) ==
    LET done(t) == t.complete
        completed == SelectSeq(m.todos, done)
        completedIds == {completed[i].id : i \in 1..Len(completed)}
    IN deleteMultipleTodos(m, completedIds, writeFails, listenerThrows)

\* The content of the secondary slot: the text exportTodos returned
Snapshot(value) == [kind |-> "snapshot", value |-> value]

\* exportTodos that stores what it returns in the secondary slot
exportTodos_StoresSnapshot(m) ==
    LET export == [version |-> CURRENT_VERSION,
                   timestamp |-> ToISO(now),
                   todos |-> Stored(JSONstringify(m.todos, now))]
    IN Return([m EXCEPT !.backup = Snapshot(export)], export)

\* TodoService.exportTodos: the JSON text, as the value JSON.parse gives
\* back; the value of a field is tagged like the content of a slot
exportTodos(m) ==
    Return(m, [version |-> CURRENT_VERSION,
               timestamp |-> ToISO(now),
               todos |-> Stored(JSONstringify(m.todos, now))])

\* A text JSON.parse rejects
Unparseable == [syntaxError |-> TRUE]

\* TodoService.validateTodo
validateTodo(todo) ==
    /\ todo.text # <<>>
    /\ _validateTodoText(todo.text) = NoError
    /\ ~(todo.dueDate # None /\ todo.dueDate[1] = InvalidDate)

\* new Todo(record) that takes over the id of a record that has one
TodosOfRecords_KeepsIds(recs, firstId) ==
    [i \in 1..Len(recs) |->
        Todo(DataOfRecord(recs[i]),
             IF Has(recs[i], "id") THEN recs[i].id ELSE firstId + i - 1, now)]

\* new Todo(record) for every record of a parsed array, with ids from firstId
TodosOfRecords(recs, firstId) ==
    [i \in 1..Len(recs) |-> Todo(DataOfRecord(recs[i]), firstId + i - 1, now)]

AllRecordsValid(recs) ==
    \A i \in 1..Len(recs) : validateData(DataOfRecord(recs[i])).isValid

\* importTodos that takes a payload without a todos array for an empty one
importTodos_NoShapeCheck(m, data, writeFails, listenerThrows) ==
    IF Has(data, "syntaxError") THEN Raise(m, INVALID_DATA)
    ELSE LET records == IF Has(data, "todos") /\ data.todos.kind = "array"
                        THEN data.todos.value ELSE <<>>
         IN IF ~AllRecordsValid(records) THEN Raise(m, INVALID_DATA)
            ELSE LET importedTodos == TodosOfRecords(records, m.nextId)
                     validTodos == SelectSeq(importedTodos, validateTodo)
                     m1 == [m EXCEPT !.nextId = @ + Len(importedTodos),
                                     !.todos = @ \o validTodos]
                     m2 == _commit(m1, m1.todos, writeFails, listenerThrows)
                 IN IF m2.raised # NoError THEN m2
                    ELSE Return(m2, Len(validTodos))

\* TodoService.importTodos.  A plain Error of the Todo constructor is
\* caught and thrown again as INVALID_DATA.
importTodos(m, data, writeFails, listenerThrows) ==
    IF Has(data, "syntaxError") THEN Raise(m, INVALID_DATA)
    ELSE IF ~Has(data, "todos") \/ data.todos.kind # "array" THEN Raise(m, INVALID_DATA)
    ELSE IF ~AllRecordsValid(data.todos.value) THEN Raise(m, INVALID_DATA)
    ELSE LET importedTodos == TodosOfRecords(data.todos.value, m.nextId)
             validTodos == SelectSeq(importedTodos, validateTodo)
             m1 == [m EXCEPT !.nextId = @ + Len(importedTodos),
                             !.todos = @ \o validTodos]
             m2 == _commit(m1, m1.todos, writeFails, listenerThrows)
         IN IF m2.raised # NoError THEN m2
            ELSE Return(m2, Len(validTodos))

\* backupTodos without its try/catch
backupTodos_NoCatch(m, backupFails) ==
    LET m1 == exportTodos(m)
    IN IF backupFails THEN Raise(m1, PlainError)
       ELSE [m1 EXCEPT !.backup = Snapshot(m1.ret)]

\* TodoService.backupTodos.  backupFails: localStorage.setItem of the
\* secondary slot throws; the catch logs a warning.
backupTodos(m, backupFails) ==
    LET m1 == exportTodos(m)
    IN IF backupFails THEN m1
       ELSE [m1 EXCEPT !.backup = Snapshot(m1.ret)]

\* restoreFromBackup without its try/catch
restoreFromBackup_NoCatch(m, backup, writeFails, listenerThrows) ==
    LET m1 == [m EXCEPT !.todos = <<>>]
        m2 == importTodos(m1, backup, writeFails, listenerThrows)
    IN IF m2.raised # NoError THEN m2 ELSE Return(m2, TRUE)

\* TodoService.restoreFromBackup
restoreFromBackup(m, backup, writeFails, listenerThrows) ==
    LET m1 == [m EXCEPT !.todos = <<>>]
        m2 == importTodos(m1, backup, writeFails, listenerThrows)
    IN IF m2.raised # NoError
       THEN Return([m2 EXCEPT !.raised = NoError], FALSE)
       ELSE Return(m2, TRUE)

\* TodoService.clearAllTodos
clearAllTodos(m, writeFails, listenerThrows) ==
    LET m1 == [m EXCEPT !.todos = <<>>]
    IN _commit(m1, m1.todos, writeFails, listenerThrows)

\* TodoService.validateTodos
validateTodos(m) ==
    LET invalid(t) == ~validateTodo(t)
    IN Return(m, SelectSeq(m.todos, invalid))

\* repairData that commits whether or not it removed anything
repairData_AlwaysCommits(m, writeFails, listenerThrows) ==
    LET initialLength == Len(m.todos)
        m1 == [m EXCEPT !.todos = SelectSeq(@, validateTodo)]
        m2 == _commit(m1, m1.todos, writeFails, listenerThrows)
    IN IF m2.raised # NoError THEN m2
       ELSE Return(m2, initialLength - Len(m2.todos))

\* TodoService.repairData
repairData(m, writeFails, listenerThrows) ==
    LET initialLength == Len(m.todos)
        m1 == [m EXCEPT !.todos = SelectSeq(@, validateTodo)]
        m2 == IF Len(m1.todos) # initialLength
              THEN _commit(m1, m1.todos, writeFails, listenerThrows) ELSE m1
    IN IF m2.raised # NoError THEN m2
       ELSE Return(m2, initialLength - Len(m2.todos))

\* TodoService.getTodoCount
getTodoCount(ts) ==
    LET done(t) == t.complete
        total == Len(ts)
        completed == Len(SelectSeq(ts, done))
    IN [total |-> total, completed |-> completed, pending |-> total - completed]

\* TodoModelUtils.getTodoStatistics
getTodoStatistics(ts, t) ==
    LET done(todo) == todo.complete
        overdue(todo) == isOverdue(todo, t)
    IN [total |-> Len(ts),
        completed |-> Len(SelectSeq(ts, done)),
        pending |-> Len(SelectSeq(ts, isPending)),
        overdue |-> Len(SelectSeq(ts, overdue)),
        byStatus |->
            [s \in TodoStatus |-> LET with(todo) == todo.status = s
                                  IN Len(SelectSeq(ts, with))],
        byPriority |->
            [p \in TodoPriority |-> LET with(todo) == todo.priority = p
                                    IN Len(SelectSeq(ts, with))]]

\* The sum of updatedAt - createdAt over the todos
RECURSIVE TotalCompletionTime(_)
TotalCompletionTime(ts) ==
    IF ts = <<>> THEN 0
    ELSE (Head(ts).updatedAt - Head(ts).createdAt) + TotalCompletionTime(Tail(ts))

\* TodoService.getStatistics; a quotient a / b is the pair <<a, b>>
getStatistics(m) ==
    LET counts == getTodoCount(m.todos)
        done(todo) == todo.complete
        completedTodos == SelectSeq(m.todos, done)
    IN Return(m,
        [total |-> counts.total,
         completed |-> counts.completed,
         pending |-> counts.pending,
         completionRate |->
            IF counts.total > 0 THEN <<counts.completed * 100, counts.total>>
            ELSE <<0, 1>>,
         priorityDistribution |->
            [p \in TodoPriority |-> LET with(todo) == todo.priority = p
                                    IN Len(SelectSeq(m.todos, with))],
         statusDistribution |->
            [s \in TodoStatus |-> LET with(todo) == todo.status = s
                                  IN Len(SelectSeq(m.todos, with))]]
        @@ (IF completedTodos # <<>>
            THEN [averageCompletionTime |->
                    <<TotalCompletionTime(completedTodos), Len(completedTodos)>>]
            ELSE <<>>))

\* An array object handed outward: its identity and its elements
Array(ref, value) == [ref |-> ref, value |-> value]

\* [...xs], xs.filter(...): a new array holding `value` is returned
ReturnNewArray(m, value) ==
    Return([m EXCEPT !.nextRef = @ + 1], Array(m.nextRef, value))

\* String.prototype.includes
Includes(s, sub) ==
    \E i \in 0..(Len(s) - Len(sub)) : SubSeq(s, i + 1, i + Len(sub)) = sub

\* a > b and a < b on Dates: false when either is an Invalid Date
DateGt(a, b) == a # InvalidDate /\ b # InvalidDate /\ a > b
DateLt(a, b) == a # InvalidDate /\ b # InvalidDate /\ a < b

\* The test of TodoModelUtils.filterTodos.  A status, priority or tags
\* criterion is the set of the values given (one value: a singleton).
MatchesFilter(todo, filter) ==
    /\ Has(filter, "status") => todo.status \in filter.status
    /\ Has(filter, "priority") => todo.priority \in filter.priority
    /\ Has(filter, "complete") => todo.complete = filter.complete
    /\ Has(filter, "tags") =>
          \E tag \in filter.tags :
              LET same(t) == t = ToLowerCase(tag)
              IN \E i \in 1..Len(todo.tags) : same(todo.tags[i])
    /\ Has(filter, "dueBefore") =>
          ~(todo.dueDate = None \/ DateGt(todo.dueDate[1], filter.dueBefore))
    /\ Has(filter, "dueAfter") =>
          ~(todo.dueDate = None \/ DateLt(todo.dueDate[1], filter.dueAfter))
    /\ Has(filter, "searchText") =>
          LET searchLower == ToLowerCase(filter.searchText)
              inTag(t) == Includes(t, searchLower)
          IN \/ Includes(ToLowerCase(todo.text), searchLower)
             \/ /\ todo.description # None
                /\ Includes(ToLowerCase(todo.description[1]), searchLower)
             \/ (\E i \in 1..Len(todo.tags) : inTag(todo.tags[i]))

\* TodoModelUtils.filterTodos
filterTodos(ts, filter) ==
    LET test(todo) == MatchesFilter(todo, filter)
    IN SelectSeq(ts, test)

\* TodoService.findTodos: [...TodoModelUtils.filterTodos(this.todos, filter)]
findTodos(m, filter) ==
    ReturnNewArray([m EXCEPT !.nextRef = @ + 1], filterTodos(m.todos, filter))

\* TodoService.searchTodos
searchTodos(m, query) ==
    IF Trim(query) = <<>> THEN ReturnNewArray(m, m.todos)
    ELSE LET searchTerm == Trim(ToLowerCase(query))
             inTag(t) == Includes(ToLowerCase(t), searchTerm)
             test(todo) ==
                \/ Includes(ToLowerCase(todo.text), searchTerm)
                \/ /\ todo.description # None
                   /\ Includes(ToLowerCase(todo.description[1]), searchTerm)
                \/ (\E i \in 1..Len(todo.tags) : inTag(todo.tags[i]))
         IN ReturnNewArray(m, SelectSeq(m.todos, test))

\* The comparator of TodoModelUtils.sortTodos for the fields of the model
\* that hold a Date (createdAt, updatedAt), a boolean (complete): negative,
\* zero or positive
Compare(a, b, sort) ==
    LET comparison ==
            IF sort.field = "complete"
            THEN (IF a.complete = b.complete THEN 0
                  ELSE IF a.complete THEN 1 ELSE -1)
            ELSE a[sort.field] - b[sort.field]
    IN IF sort.direction = "desc" THEN 0 - comparison ELSE comparison

\* Array.prototype.sort, which is stable: x goes behind the last element
\* that does not come after it
RECURSIVE SortInsert(_, _, _)
SortInsert(sorted, x, sort) ==
    IF sorted = <<>> THEN <<x>>
    ELSE IF Compare(sorted[Len(sorted)], x, sort) <= 0 THEN Append(sorted, x)
    ELSE Append(SortInsert(SubSeq(sorted, 1, Len(sorted) - 1), x, sort),
                sorted[Len(sorted)])

RECURSIVE SortedBy(_, _)
SortedBy(ts, sort) ==
    IF ts = <<>> THEN <<>>
    ELSE SortInsert(SortedBy(SubSeq(ts, 1, Len(ts) - 1), sort), ts[Len(ts)], sort)

\* TodoService.getTodo: the item, or null
getTodo(m, id) ==
    LET pos == _findTodoById(m.todos, id)
    IN Return(m, IF pos = 0 THEN JSONnull ELSE m.todos[pos])

\* TodoService.getTodosByStatus
getTodosByStatus(m, status) ==
    LET test(todo) == todo.status = status
    IN ReturnNewArray(m, SelectSeq(m.todos, test))

\* TodoService.getTodosByPriority
getTodosByPriority(m, priority) ==
    LET test(todo) == todo.priority = priority
    IN ReturnNewArray(m, SelectSeq(m.todos, test))

\* sortTodos over a utility that sorts the array it is given in place
sortTodos_InPlace(m, sort) ==
    ReturnNewArray([m EXCEPT !.todos = SortedBy(@, sort)], SortedBy(m.todos, sort))

\* TodoService.sortTodos: [...TodoModelUtils.sortTodos(this.todos, sort)],
\* where TodoModelUtils.sortTodos is [...todos].sort(...)
sortTodos(m, sort) ==
    ReturnNewArray([m EXCEPT !.nextRef = @ + 1], SortedBy(m.todos, sort))

\* loadTodos without its try/catch
loadTodos_NoCatch(m, readFails) ==
    IF readFails THEN Raise(m, PlainError)
    ELSE IF m.storage.kind = "absent" THEN [m EXCEPT !.todos = <<>>]
    ELSE IF m.storage.kind = "garbage" THEN Raise(m, PlainError)
    ELSE IF m.storage.kind # "array" THEN Raise(m, PlainError)
    ELSE IF ~AllRecordsValid(m.storage.value) THEN Raise(m, PlainError)
    ELSE [m EXCEPT !.todos = TodosOfRecords(m.storage.value, m.nextId),
                   !.nextId = @ + Len(m.storage.value)]

\* loadTodos that skips the records the Todo constructor rejects
loadTodos_SkipsInvalid(m, readFails) ==
    IF readFails THEN [m EXCEPT !.todos = <<>>]
    ELSE IF m.storage.kind # "array" THEN [m EXCEPT !.todos = <<>>]
    ELSE LET valid(rec) == validateData(DataOfRecord(rec)).isValid
             records == SelectSeq(m.storage.value, valid)
         IN [m EXCEPT !.todos = TodosOfRecords(records, m.nextId),
                      !.nextId = @ + Len(records)]

\* TodoService.loadTodos, run by the constructor.  readFails:
\* localStorage.getItem throws.  Whatever is thrown inside (by getItem, by
\* JSON.parse, by .map of a value that is not an array, by the Todo
\* constructor) is caught and leaves the collection empty.
loadTodos(m, readFails) ==
    IF readFails THEN [m EXCEPT !.todos = <<>>]
    ELSE IF m.storage.kind = "absent" THEN [m EXCEPT !.todos = <<>>]
    ELSE IF m.storage.kind = "garbage" THEN [m EXCEPT !.todos = <<>>]
    ELSE IF m.storage.kind # "array" THEN [m EXCEPT !.todos = <<>>]
    ELSE IF ~AllRecordsValid(m.storage.value) THEN [m EXCEPT !.todos = <<>>]
    ELSE [m EXCEPT !.todos = TodosOfRecords(m.storage.value, m.nextId),
                   !.nextId = @ + Len(m.storage.value)]

\* ---------------------------------------------------------------- inputs
LongText == Str(MAX_TEXT_LENGTH + 1, "a")

TextInputs ==
    {<<>>, <<" ", " ">>, <<" ", "a", " ">>, <<"b">>, <<"\t">> \o LongText}

PriorityInputs == {HIGH}

\* The ids a caller passes: those of the first and of the last todo, and
\* 0, an id that generateId never returned
IdInputs == {todos[i].id : i \in {1, Len(todos)} \cap (1..Len(todos))} \cup {0}

UpdateInputs ==
    {[text |-> <<" ", "b", " ">>],
     [text |-> <<" ">>],
     [status |-> ARCHIVED],
     [complete |-> TRUE],
     [text |-> LongText],
     [priority |-> "urgent"],
     [status |-> "done"],
     [dueDate |-> Some(InvalidDate)],
     [priority |-> HIGH,
      description |-> Some(<<" ", "D">>),
      dueDate |-> Some(0),
      tags |-> << <<"X", " ">>, <<"x">> >>]}

TextsInputs ==
    {<< <<" ">>, <<"\t">> \o LongText >>,
     << <<>>, <<"a", " ">> >>,
     << <<"b">>, <<" ">>, <<"a">> >>}

\* Criteria of findTodos, queries of searchTodos, criteria of sortTodos
NoCriteria == [criterion \in {} |-> {}]

FilterInputs ==
    {NoCriteria,
     [complete |-> TRUE],
     [status |-> {ARCHIVED}, priority |-> {LOW, MEDIUM}],
     [searchText |-> <<"A">>],
     [tags |-> {<<"X">>}, dueBefore |-> 0],
     [dueAfter |-> 1]}

QueryInputs == {<<>>, <<" ">>, <<"A">>, <<" ", "b">>}

SortInputs ==
    [field : {"createdAt", "complete"}, direction : {"asc", "desc"}]

\* What a holder of an array does to it
MutationInputs == {"push", "pop", "reverse"}

\* An object a holder of an array pushes to it
Intruder == Todo([text |-> <<"x">>], 0, 0)

Mutated(xs, how) ==
    CASE how = "push" -> Append(xs, Intruder)
      [] how = "pop" -> SubSeq(xs, 1, Len(xs) - 1)
      [] how = "reverse" -> [i \in 1..Len(xs) |-> xs[Len(xs) + 1 - i]]

\* The per-item commits of a bulk update that may run into a fault: the
\* first and the last
FaultyInputs == {1, Len(todos)} \cap (1..Len(todos))

IdsInputs == {ids \in SUBSET IdInputs : Cardinality(ids) <= 2}

\* Payloads handed to importTodos besides the service's own export
ImportInputs ==
    {Unparseable,
     [version |-> CURRENT_VERSION],
     [version |-> CURRENT_VERSION, todos |-> NotAnArray],
     [version |-> CURRENT_VERSION,
      todos |-> Stored(<<[text |-> <<"c", " ">>, complete |-> TRUE],
                         [text |-> <<>>]>>)],
     [version |-> CURRENT_VERSION,
      todos |-> Stored(<<[text |-> <<"c", " ">>, complete |-> TRUE]>>)]}

\* What an earlier session may have left in the primary slot: nothing, or
\* the serialization of todos it had built (ids and dates of that session).
PersistedTodoA == Todo([text |-> <<"a">>, priority |-> HIGH], 101, 0)

PersistedTodoB ==
    Todo([text |-> <<"b">>, complete |-> TRUE, status |-> ARCHIVED,
          description |-> Some(<<"d">>), dueDate |-> Some(0),
          tags |-> << <<"x">> >>], 102, 0)

PersistedInputs ==
    {Absent,
     Stored(JSONstringify(<<PersistedTodoA>>, 0)),
     Stored(JSONstringify(<<PersistedTodoA, PersistedTodoB>>, 0))}

\* What something else than the service may have left in the primary slot:
\* a text that is not JSON, JSON that is not an array, an array with a
\* record the Todo constructor rejects.
CorruptInputs ==
    {NotJSON,
     NotAnArray,
     Stored(JSONstringify(<<PersistedTodoA>>, 0) \o <<[text |-> <<" ">>]>>)}

\* The first id generateId returns after the first construction
FirstId == 3

\* The identity of the returned array when no array is returned
NoArray == -1

\* No call is being observed
Idle ==
    [op |-> "none", args |-> <<>>,
     writeFails |-> FALSE, listenerThrows |-> FALSE,
     raised |-> NoError, ret |-> <<>>,
     preTodos |-> <<>>, preStorage |-> Absent, preBackup |-> Absent,
     writes |-> 0, failedWrites |-> 0,
     changeLog |-> <<>>, opLog |-> <<>>,
     todosRef |-> 0, retRef |-> NoArray, mutations |-> 0]

\* The operations that return an array of todos taken from the collection
QueryOps ==
    {"findTodos", "searchTodos", "sortTodos",
     "getTodosByStatus", "getTodosByPriority"}

\* --------------------------------------------------------------- actions
Ready == last.op = "none"

\* The effect of one call on the service, with what its caller and the
\* listeners observed: a fault the call did not run into is not observed.
\* The arrays the call has handed outward are the arguments of the
\* change-listener (changeLog) and, for a query, the array returned; with
\* the identity of each and of the array this.todos refers to at the end.
Observe(op, args, m, writeFails, listenerThrows) ==
    /\ calls' = calls + 1
    /\ todos' = m.todos
    /\ storage' = m.storage
    /\ backupStorage' = m.backup
    /\ nextId' = m.nextId
    /\ last' = [op |-> op, args |-> args,
                writeFails |-> writeFails /\ m.failedWrites > 0,
                listenerThrows |->
                    listenerThrows
                    /\ \E c \in 1..Len(m.changeLog) : m.changeLog[c].threw,
                raised |-> m.raised,
                ret |-> IF op \in QueryOps THEN m.ret.value ELSE m.ret,
                preTodos |-> todos, preStorage |-> storage,
                preBackup |-> backupStorage,
                writes |-> m.writes, failedWrites |-> m.failedWrites,
                changeLog |-> m.changeLog, opLog |-> m.opLog,
                todosRef |-> m.todosRef,
                retRef |-> IF op \in QueryOps THEN m.ret.ref ELSE NoArray,
                mutations |-> 0]
    /\ UNCHANGED now

\* A call within the budget of calls
Call(op, args, m, writeFails, listenerThrows) ==
    /\ calls < MaxCalls
    /\ Observe(op, args, m, writeFails, listenerThrows)

\* Outcomes of the environment for one commit: the write may fail; a
\* registered change-listener may throw.
Outcomes ==
    {<<FALSE, FALSE>>, <<TRUE, FALSE>>}
    \cup (IF onTodoListChanged # NoListener THEN {<<FALSE, TRUE>>} ELSE {})

\* The state after the first construction over a slot holding `slot`,
\* with the listeners the constructing code has registered
InitWith(slot, changed, operation) ==
    /\ now = 0
    /\ storage = slot
    /\ backupStorage = Absent
    /\ todos = loadTodos([todos |-> <<>>, storage |-> storage, nextId |-> 1],
                          FALSE).todos
    /\ onTodoListChanged = changed
    /\ onTodoOperation = operation
    /\ nextId = FirstId
    /\ calls = 0
    /\ last = [Idle EXCEPT !.op = "constructor", !.preStorage = storage,
                            !.args = [readFails |-> FALSE]]

InitOver(slot) == InitWith(slot, NoListener, NoListener)

Init == \E slot \in PersistedInputs : InitOver(slot)

\* new TodoService() over the same localStorage (a page reload)
Construct ==
    /\ Ready
    /\ \E readFails \in BOOLEAN :
          Call("constructor", [readFails |-> readFails],
               loadTodos(Machine, readFails), FALSE, FALSE)
    /\ onTodoListChanged' = NoListener
    /\ onTodoOperation' = NoListener

BindTodoListChanged ==
    /\ Ready
    /\ \E callback \in Listeners :
        /\ onTodoListChanged' = callback
        /\ Call("bindTodoListChanged", callback, Machine, FALSE, FALSE)
        /\ UNCHANGED onTodoOperation

BindTodoOperation ==
    /\ Ready
    /\ \E callback \in Listeners :
        /\ onTodoOperation' = callback
        /\ Call("bindTodoOperation", callback, Machine, FALSE, FALSE)
        /\ UNCHANGED onTodoListChanged

AddTodo ==
    /\ Ready
    /\ \E text \in TextInputs, priority \in PriorityInputs, o \in Outcomes :
        /\ Call("addTodo", [text |-> text, priority |-> priority],
                addTodo(Machine, text, priority, o[1], o[2]), o[1], o[2])
        /\ UNCHANGED <<onTodoListChanged, onTodoOperation>>

UpdateTodo ==
    /\ Ready
    /\ \E id \in IdInputs, updates \in UpdateInputs, o \in Outcomes :
        /\ Call("updateTodo", [id |-> id, updates |-> updates],
                updateTodo(Machine, id, updates, o[1], o[2]), o[1], o[2])
        /\ UNCHANGED <<onTodoListChanged, onTodoOperation>>

DeleteTodo ==
    /\ Ready
    /\ \E id \in IdInputs, o \in Outcomes :
        /\ Call("deleteTodo", [id |-> id],
                deleteTodo(Machine, id, o[1], o[2]), o[1], o[2])
        /\ UNCHANGED <<onTodoListChanged, onTodoOperation>>

ToggleTodo ==
    /\ Ready
    /\ \E id \in IdInputs, o \in Outcomes :
        /\ Call("toggleTodo", [id |-> id],
                toggleTodo(Machine, id, o[1], o[2]), o[1], o[2])
        /\ UNCHANGED <<onTodoListChanged, onTodoOperation>>

AddMultipleTodos ==
    /\ Ready
    /\ \E texts \in TextsInputs, o \in Outcomes :
        /\ Call("addMultipleTodos", [texts |-> texts],
                addMultipleTodos(Machine, texts, o[1], o[2]), o[1], o[2])
        /\ UNCHANGED <<onTodoListChanged, onTodoOperation>>

DeleteMultipleTodos ==
    /\ Ready
    /\ \E ids \in IdsInputs, o \in Outcomes :
        /\ Call("deleteMultipleTodos", [ids |-> ids],
                deleteMultipleTodos(Machine, ids, o[1], o[2]), o[1], o[2])
        /\ UNCHANGED <<onTodoListChanged, onTodoOperation>>

ToggleAll ==
    /\ Ready
    /\ \E complete \in BOOLEAN, failing \in SUBSET FaultyInputs :
      \E throwing \in (IF onTodoListChanged # NoListener
                       THEN SUBSET (FaultyInputs \ failing) ELSE {{}}) :
        /\ Call("toggleAll", [complete |-> complete,
                              failing |-> failing, throwing |-> throwing],
                toggleAll(Machine, complete, failing, throwing),
                failing # {}, throwing # {})
        /\ UNCHANGED <<onTodoListChanged, onTodoOperation>>

ClearCompleted ==
    /\ Ready
    /\ \E o \in Outcomes :
        /\ Call("clearCompleted", <<>>,
                clearCompleted(Machine, o[1], o[2]), o[1], o[2])
        /\ UNCHANGED <<onTodoListChanged, onTodoOperation>>

ExportTodos ==
    /\ Ready
    /\ Call("exportTodos", <<>>, exportTodos(Machine), FALSE, FALSE)
    /\ UNCHANGED <<onTodoListChanged, onTodoOperation>>

\* importTodos(data); data may be what exportTodos has just returned
ImportTodos ==
    \E data \in (IF last.op = "exportTodos" THEN {last.ret}
                  ELSE IF Ready THEN ImportInputs ELSE {}),
       o \in Outcomes :
        /\ Call("importTodos", [data |-> data],
                importTodos(Machine, data, o[1], o[2]), o[1], o[2])
        /\ UNCHANGED <<onTodoListChanged, onTodoOperation>>

\* restoreFromBackup(backup); backup may be what exportTodos has just returned
RestoreFromBackup ==
    \E backup \in (IF last.op = "exportTodos" THEN {last.ret}
                    ELSE IF Ready THEN ImportInputs ELSE {}),
       o \in Outcomes :
        /\ Call("restoreFromBackup", [backup |-> backup],
                restoreFromBackup(Machine, backup, o[1], o[2]), o[1], o[2])
        /\ UNCHANGED <<onTodoListChanged, onTodoOperation>>

ValidateTodos ==
    /\ Ready
    /\ Call("validateTodos", <<>>, validateTodos(Machine), FALSE, FALSE)
    /\ UNCHANGED <<onTodoListChanged, onTodoOperation>>

RepairData ==
    /\ Ready
    /\ \E o \in Outcomes :
        /\ Call("repairData", <<>>,
                repairData(Machine, o[1], o[2]), o[1], o[2])
        /\ UNCHANGED <<onTodoListChanged, onTodoOperation>>

GetTodoCount ==
    /\ Ready
    /\ Call("getTodoCount", <<>>, Return(Machine, getTodoCount(todos)), FALSE, FALSE)
    /\ UNCHANGED <<onTodoListChanged, onTodoOperation>>

GetStatistics ==
    /\ Ready
    /\ Call("getStatistics", <<>>, getStatistics(Machine), FALSE, FALSE)
    /\ UNCHANGED <<onTodoListChanged, onTodoOperation>>

\* TodoModelUtils.getTodoStatistics over the collection of the service
GetTodoStatistics ==
    /\ Ready
    /\ Call("getTodoStatistics", <<>>,
            Return(Machine, getTodoStatistics(todos, now)), FALSE, FALSE)
    /\ UNCHANGED <<onTodoListChanged, onTodoOperation>>

FindTodos ==
    /\ Ready
    /\ \E filter \in FilterInputs :
          Call("findTodos", [filter |-> filter], findTodos(Machine, filter),
               FALSE, FALSE)
    /\ UNCHANGED <<onTodoListChanged, onTodoOperation>>

SearchTodos ==
    /\ Ready
    /\ \E query \in QueryInputs :
          Call("searchTodos", [query |-> query], searchTodos(Machine, query),
               FALSE, FALSE)
    /\ UNCHANGED <<onTodoListChanged, onTodoOperation>>

SortTodos ==
    /\ Ready
    /\ \E sort \in SortInputs :
          Call("sortTodos", [sort |-> sort], sortTodos(Machine, sort),
               FALSE, FALSE)
    /\ UNCHANGED <<onTodoListChanged, onTodoOperation>>

GetTodo ==
    /\ Ready
    /\ \E id \in IdInputs :
          Call("getTodo", [id |-> id], getTodo(Machine, id), FALSE, FALSE)
    /\ UNCHANGED <<onTodoListChanged, onTodoOperation>>

GetTodosByStatus ==
    /\ Ready
    /\ \E status \in {PENDING, ARCHIVED} :
          Call("getTodosByStatus", [status |-> status],
               getTodosByStatus(Machine, status), FALSE, FALSE)
    /\ UNCHANGED <<onTodoListChanged, onTodoOperation>>

GetTodosByPriority ==
    /\ Ready
    /\ \E priority \in {MEDIUM, HIGH} :
          Call("getTodosByPriority", [priority |-> priority],
               getTodosByPriority(Machine, priority), FALSE, FALSE)
    /\ UNCHANGED <<onTodoListChanged, onTodoOperation>>

\* The change-listener or the caller appends to, removes from or reorders
\* an array the last call has handed to it.  An array that is the one
\* this.todos refers to changes under the service too.
MutateHanded ==
    /\ last.mutations < MaxMutations
    /\ \E how \in MutationInputs :
        \/ /\ last.retRef # NoArray
           /\ last' = [last EXCEPT !.ret = Mutated(@, how),
                                   !.mutations = @ + 1]
           /\ todos' = IF last.retRef = last.todosRef
                       THEN Mutated(todos, how) ELSE todos
        \/ \E k \in 1..Len(last.changeLog) :
            /\ last' = [last EXCEPT !.changeLog[k].arg = Mutated(@, how),
                                    !.mutations = @ + 1]
            /\ todos' = IF last.changeLog[k].ref = last.todosRef
                        THEN Mutated(todos, how) ELSE todos
    /\ UNCHANGED <<storage, backupStorage, onTodoListChanged, onTodoOperation,
                   nextId, now, calls>>

\* The caller has taken the outcome of its call and goes on
Continue ==
    /\ ~Ready
    /\ last' = Idle
    /\ UNCHANGED <<todos, storage, backupStorage, onTodoListChanged,
                   onTodoOperation, nextId, now, calls>>

\* Time passes
Tick ==
    /\ Ready
    /\ now < MaxTime
    /\ now' = now + 1
    /\ UNCHANGED <<todos, storage, backupStorage, onTodoListChanged,
                   onTodoOperation, nextId, calls, last>>

Next ==
    \/ Construct
    \/ BindTodoListChanged
    \/ BindTodoOperation
    \/ AddTodo
    \/ UpdateTodo
    \/ DeleteTodo
    \/ ToggleTodo
    \/ AddMultipleTodos
    \/ DeleteMultipleTodos
    \/ ToggleAll
    \/ ClearCompleted
    \/ ExportTodos
    \/ ImportTodos
    \/ SortTodos
    \/ Continue
    \/ Tick

Spec == Init /\ [][Next]_vars

\* The service over a slot in any condition, and its data management:
\* reload, export, import, restore.
InitData == \E slot \in PersistedInputs \cup CorruptInputs : InitOver(slot)

NextData ==
    \/ Construct
    \/ BindTodoListChanged
    \/ AddTodo
    \/ ExportTodos
    \/ ImportTodos
    \/ RestoreFromBackup
    \/ Continue
    \/ Tick

SpecData == InitData /\ [][NextData]_vars

\* The service whose listeners the controller has registered (A on both
\* slots) or not, and to which listeners are registered again.
InitListeners ==
    \E slot \in PersistedInputs, callback \in {NoListener, "A"} :
        InitWith(slot, callback, callback)

NextListeners ==
    \/ BindTodoListChanged
    \/ BindTodoOperation
    \/ AddTodo
    \/ UpdateTodo
    \/ DeleteTodo
    \/ DeleteMultipleTodos
    \/ AddMultipleTodos
    \/ ToggleAll
    \/ ImportTodos
    \/ Continue

SpecListeners == InitListeners /\ [][NextListeners]_vars

\* The service under every operation that puts items into the collection
\* or changes them, and its integrity operations.
NextIntegrity ==
    \/ Construct
    \/ AddTodo
    \/ UpdateTodo
    \/ DeleteTodo
    \/ ToggleTodo
    \/ AddMultipleTodos
    \/ ToggleAll
    \/ ExportTodos
    \/ ImportTodos
    \/ RestoreFromBackup
    \/ ValidateTodos
    \/ RepairData
    \/ Continue

SpecIntegrity == InitListeners /\ [][NextIntegrity]_vars

\* The service from an empty store, under the operations that create,
\* toggle and remove items.
InitLifecycle ==
    \E callback \in {NoListener, "A"} : InitWith(Absent, callback, callback)

\* A call of the longer sequences on this service
LifecycleCall(op, args, m, o) ==
    /\ Ready
    /\ calls < MaxLifecycleCalls
    /\ Observe(op, args, m, o[1], o[2])
    /\ UNCHANGED <<onTodoListChanged, onTodoOperation>>

LifecycleAddTodo ==
    \E text \in {<<"a">>, <<" ">>}, o \in Outcomes :
        LifecycleCall("addTodo", [text |-> text, priority |-> MEDIUM],
                      addTodo(Machine, text, MEDIUM, o[1], o[2]), o)

LifecycleAddMultipleTodos ==
    \E o \in Outcomes :
        LET texts == << <<"b">>, <<" ">>, <<"a">> >>
        IN LifecycleCall("addMultipleTodos", [texts |-> texts],
                         addMultipleTodos(Machine, texts, o[1], o[2]), o)

LifecycleToggleTodo ==
    \E id \in IdInputs, o \in Outcomes :
        LifecycleCall("toggleTodo", [id |-> id],
                      toggleTodo(Machine, id, o[1], o[2]), o)

LifecycleToggleAll ==
    \E complete \in BOOLEAN, o \in Outcomes :
        LET failing == IF o[1] THEN FaultyInputs ELSE {}
            throwing == IF o[2] THEN FaultyInputs ELSE {}
        IN LifecycleCall("toggleAll",
                         [complete |-> complete,
                          failing |-> failing, throwing |-> throwing],
                         toggleAll(Machine, complete, failing, throwing), o)

LifecycleDeleteTodo ==
    \E id \in IdInputs, o \in Outcomes :
        LifecycleCall("deleteTodo", [id |-> id],
                      deleteTodo(Machine, id, o[1], o[2]), o)

LifecycleDeleteMultipleTodos ==
    \E o \in Outcomes :
        LET ids == {todos[i].id : i \in {1} \cap (1..Len(todos))} \cup {0}
        IN LifecycleCall("deleteMultipleTodos", [ids |-> ids],
                         deleteMultipleTodos(Machine, ids, o[1], o[2]), o)

LifecycleClearCompleted ==
    \E o \in Outcomes :
        LifecycleCall("clearCompleted", <<>>,
                      clearCompleted(Machine, o[1], o[2]), o)

LifecycleClearAllTodos ==
    \E o \in Outcomes :
        LifecycleCall("clearAllTodos", <<>>,
                      clearAllTodos(Machine, o[1], o[2]), o)

NextLifecycle ==
    \/ LifecycleAddTodo
    \/ LifecycleAddMultipleTodos
    \/ LifecycleToggleTodo
    \/ LifecycleToggleAll
    \/ LifecycleDeleteTodo
    \/ LifecycleDeleteMultipleTodos
    \/ LifecycleClearCompleted
    \/ LifecycleClearAllTodos
    \/ Continue

SpecLifecycle == InitLifecycle /\ [][NextLifecycle]_vars

\* The service over what an earlier session has left, under backup and
\* restore: items are added and changed, snapshots are taken into the
\* secondary slot, and the collection is restored from the snapshot of the
\* secondary slot or from a snapshot of elsewhere.
BackupUpdateInputs == {[dueDate |-> Some(InvalidDate)], [status |-> ARCHIVED]}

BackupInputs ==
    (IF backupStorage = Absent THEN {} ELSE {backupStorage.value})
    \cup {Unparseable,
          [version |-> CURRENT_VERSION,
           todos |-> Stored(<<[text |-> <<"c", " ">>, complete |-> TRUE],
                              [text |-> <<"a">>, tags |-> << <<"X">> >>]>>)],
          [version |-> CURRENT_VERSION,
           todos |-> Stored(<<[text |-> <<"c">>, dueDate |-> NotADate],
                              [text |-> <<"a">>, dueDate |-> [iso |-> 1]]>>)]}

BackupUpdateTodo ==
    \E id \in IdInputs \ {0}, updates \in BackupUpdateInputs, o \in Outcomes :
        LifecycleCall("updateTodo", [id |-> id, updates |-> updates],
                      updateTodo(Machine, id, updates, o[1], o[2]), o)

BackupTodos ==
    \E backupFails \in BOOLEAN :
        LifecycleCall("backupTodos", [backupFails |-> backupFails],
                      backupTodos(Machine, backupFails), <<FALSE, FALSE>>)

BackupRestoreFromBackup ==
    \E backup \in BackupInputs, o \in Outcomes :
        LifecycleCall("restoreFromBackup", [backup |-> backup],
                      restoreFromBackup(Machine, backup, o[1], o[2]), o)

NextBackup ==
    \/ LifecycleAddTodo
    \/ BackupUpdateTodo
    \/ BackupTodos
    \/ BackupRestoreFromBackup
    \/ Continue

SpecBackup == InitListeners /\ [][NextBackup]_vars

\* The service whose collection is changed and queried.
NextQueries ==
    \/ AddTodo
    \/ UpdateTodo
    \/ GetTodoCount
    \/ GetStatistics
    \/ GetTodoStatistics
    \/ FindTodos
    \/ SearchTodos
    \/ SortTodos
    \/ GetTodo
    \/ GetTodosByStatus
    \/ GetTodosByPriority
    \/ ExportTodos
    \/ ValidateTodos
    \/ MutateHanded
    \/ Continue

SpecQueries == InitListeners /\ [][NextQueries]_vars

\* An end-to-end session on an empty store whose listeners the controller
\* has registered or not: addTodo("Buy milk"), addTodo("Call bank"),
\* toggleTodo(id of the first todo), clearCompleted(), with the storage
\* and the listeners working and the clock running.
BuyMilk == <<"B", "u", "y", " ", "m", "i", "l", "k">>
CallBank == <<"C", "a", "l", "l", " ", "b", "a", "n", "k">>

InitSession ==
    \E changed \in {NoListener} \cup Listeners,
       operation \in {NoListener} \cup Listeners :
        InitWith(Absent, changed, operation)

SessionAddTodo ==
    /\ Ready
    /\ calls \in {0, 1}
    /\ LET text == IF calls = 0 THEN BuyMilk ELSE CallBank
       IN Observe("addTodo", [text |-> text, priority |-> MEDIUM],
                  addTodo(Machine, text, MEDIUM, FALSE, FALSE), FALSE, FALSE)
    /\ UNCHANGED <<onTodoListChanged, onTodoOperation>>

SessionToggleTodo ==
    /\ Ready
    /\ calls = 2
    /\ Observe("toggleTodo", [id |-> todos[1].id],
               toggleTodo(Machine, todos[1].id, FALSE, FALSE), FALSE, FALSE)
    /\ UNCHANGED <<onTodoListChanged, onTodoOperation>>

SessionClearCompleted ==
    /\ Ready
    /\ calls = 3
    /\ Observe("clearCompleted", <<>>,
               clearCompleted(Machine, FALSE, FALSE), FALSE, FALSE)
    /\ UNCHANGED <<onTodoListChanged, onTodoOperation>>

NextSession ==
    \/ SessionAddTodo
    \/ SessionToggleTodo
    \/ SessionClearCompleted
    \/ Continue
    \/ Tick

SpecSession == InitSession /\ [][NextSession]_vars

\* ================================================================ claims
Ids(ts) == {ts[i].id : i \in 1..Len(ts)}

Content(t) ==
    <<t.text, t.description, t.complete, t.status, t.priority, t.dueDate, t.tags>>

PendingIncomplete(t) == t.status = PENDING /\ ~t.complete
CompletedComplete(t) == t.status = COMPLETED /\ t.complete

\* The position, before the call, of the todo the call names
Target == _findTodoById(last.preTodos, last.args.id)

\* C1: every accepted updateTodo / toggleTodo leaves the item with the id
\* and the createdAt it had, so the original id still finds the updated item.
C1_UpdateKeepsIdAndCreatedAt ==
    (last.op \in {"updateTodo", "toggleTodo"} /\ last.raised = NoError) =>
        /\ last.ret.id = last.args.id
        /\ last.ret.createdAt = last.preTodos[Target].createdAt
        /\ _findTodoById(todos, last.args.id) # 0
        /\ todos[_findTodoById(todos, last.args.id)] = last.ret

\* C2: toggleTodo on an existing item flips its complete flag, takes a
\* Pending/incomplete item to Completed/complete and a Completed/complete
\* item to Pending/incomplete, and changes the complete flag and the status
\* of no other item.
C2_ToggleFlipsAndSynchronizes ==
    (last.op = "toggleTodo" /\ Target # 0) =>
        /\ Len(todos) = Len(last.preTodos)
        /\ todos[Target].complete = ~last.preTodos[Target].complete
        /\ PendingIncomplete(last.preTodos[Target]) => CompletedComplete(todos[Target])
        /\ CompletedComplete(last.preTodos[Target]) => PendingIncomplete(todos[Target])
        /\ \A i \in 1..Len(todos) :
              i # Target =>
                 /\ todos[i].complete = last.preTodos[i].complete
                 /\ todos[i].status = last.preTodos[i].status

\* C2 witnesses: a Pending/incomplete item was toggled next to another item
C2_Witness ==
    /\ last.op = "toggleTodo"
    /\ Target # 0
    /\ Len(todos) = 2
    /\ PendingIncomplete(last.preTodos[Target])
    /\ CompletedComplete(todos[Target])

HoldsTodos(slot, ts) ==
    /\ slot.kind = "array"
    /\ Len(slot.value) = Len(ts)
    /\ \A i \in 1..Len(ts) : slot.value[i].id = ts[i].id

\* C4: a service constructed over the slot that the previous one committed
\* gets the same number of items in the same order, each with the id, the
\* createdAt, the updatedAt and the content of the persisted item.
C4_ReloadPreservesItems ==
    (last.op = "constructor" /\ calls > 0
        /\ HoldsTodos(last.preStorage, last.preTodos)) =>
        /\ Len(todos) = Len(last.preTodos)
        /\ \A i \in 1..Len(todos) :
              /\ todos[i].id = last.preTodos[i].id
              /\ todos[i].createdAt = last.preTodos[i].createdAt
              /\ todos[i].updatedAt = last.preTodos[i].updatedAt
              /\ Content(todos[i]) = Content(last.preTodos[i])

\* C5: importTodos(exportTodos()) on a non-empty collection brings in as
\* many items as were exported, each with the id, the timestamps and the
\* content of the exported item.
C5_ImportOfExportPreservesItems ==
    (last.op = "importTodos" /\ last.raised = NoError
        /\ Has(last.args.data, "todos")
        /\ last.preTodos # <<>>
        /\ last.args.data.todos = Stored(JSONstringify(last.preTodos, now))) =>
        LET n == Len(last.preTodos)
        IN /\ Len(todos) = n + n
           /\ \A i \in 1..n :
                 /\ todos[n + i].id = last.preTodos[i].id
                 /\ todos[n + i].createdAt = last.preTodos[i].createdAt
                 /\ todos[n + i].updatedAt = last.preTodos[i].updatedAt
                 /\ Content(todos[n + i]) = Content(last.preTodos[i])

\* C6: whenever the change-listener runs, the primary slot already holds the
\* serialization of exactly the collection passed to the listener and that
\* collection is the in-memory collection.
C6_ListenerSeesCommittedState ==
    \A c \in 1..Len(last.changeLog) :
        /\ last.changeLog[c].sawStorage = Stored(JSONstringify(last.changeLog[c].arg, now))
        /\ last.changeLog[c].sawTodos = last.changeLog[c].arg

\* C6 witness: the change-listener ran in the commit of an addTodo
C6_Witness ==
    /\ last.op = "addTodo"
    /\ Len(last.changeLog) = 1
    /\ last.changeLog[1].arg = todos
    /\ last.preStorage # storage

SingleCommitOps ==
    {"addTodo", "updateTodo", "toggleTodo", "deleteTodo",
     "addMultipleTodos", "deleteMultipleTodos", "clearCompleted"}

\* C7: a commit is all or nothing: when the write fails during one of the
\* mutating calls, the in-memory collection is what it was before the call
\* and no listener is invoked.
C7_FailedWriteLeavesMemory ==
    (last.op \in SingleCommitOps /\ last.failedWrites > 0) =>
        /\ todos = last.preTodos
        /\ last.changeLog = <<>>
        /\ last.opLog = <<>>

\* C8: whenever a write of a commit fails, the call that triggered the
\* commit raises STORAGE_ERROR to its caller.
C8_FailedWriteRaisesStorageError ==
    (last.op \in SingleCommitOps \cup {"toggleAll", "importTodos"}
        /\ last.failedWrites > 0) =>
        last.raised = STORAGE_ERROR

\* The texts the claim C9 is about
RejectedText(text) == Trim(text) = <<>> \/ Len(Trim(text)) > 500

\* C9: addTodo of an empty, whitespace-only or over-long text raises
\* VALIDATION_FAILED and changes nothing: collection and slot are as
\* before, nothing is written, neither listener is invoked.
C9_AddRejectsBadText ==
    (last.op = "addTodo" /\ RejectedText(last.args.text)) =>
        /\ last.raised = VALIDATION_FAILED
        /\ todos = last.preTodos
        /\ storage = last.preStorage
        /\ last.writes = 0 /\ last.failedWrites = 0
        /\ last.changeLog = <<>> /\ last.opLog = <<>>

\* C9 witness: an over-long text was rejected with both kinds of listener
\* around
C9_Witness ==
    /\ last.op = "addTodo"
    /\ Len(Trim(last.args.text)) > 500
    /\ last.raised = VALIDATION_FAILED
    /\ onTodoListChanged # NoListener

\* C10: deleteTodo of an id that is not in the collection returns false and
\* has no effect: collection and slot unchanged, nothing written, neither
\* listener invoked.
C10_DeleteUnknownIsNoOp ==
    (last.op = "deleteTodo" /\ last.args.id \notin Ids(last.preTodos)) =>
        /\ last.raised = NoError
        /\ last.ret = FALSE
        /\ todos = last.preTodos
        /\ storage = last.preStorage
        /\ last.writes = 0 /\ last.failedWrites = 0
        /\ last.changeLog = <<>> /\ last.opLog = <<>>

\* C10 witness: an unknown id was deleted while a change-listener was
\* registered
C10_Witness ==
    /\ last.op = "deleteTodo"
    /\ last.args.id \notin Ids(last.preTodos)
    /\ last.preTodos # <<>>
    /\ last.ret = FALSE
    /\ onTodoListChanged # NoListener

\* The changes the entity's validation rejects: an empty or over-long text,
\* a priority or a status that is not one of the enumerated values
InvalidChanges(updates) ==
    \/ Has(updates, "text") /\ RejectedText(updates.text)
    \/ Has(updates, "priority") /\ updates.priority \notin TodoPriority
    \/ Has(updates, "status") /\ updates.status \notin TodoStatus

\* The call did nothing: collection and slot as before, nothing written,
\* neither listener invoked
NoEffect ==
    /\ todos = last.preTodos
    /\ storage = last.preStorage
    /\ last.writes = 0 /\ last.failedWrites = 0
    /\ last.changeLog = <<>> /\ last.opLog = <<>>

\* C11: an updateTodo or toggleTodo of an id that is not in the collection
\* raises TODO_NOT_FOUND, an updateTodo with an empty or over-long text or
\* an invalid priority or status raises an error too, and every updateTodo
\* or toggleTodo that ends in a not-found or validation error leaves the
\* collection and the slot unchanged, writes nothing and invokes no listener.
C11_RejectedUpdateHasNoEffect ==
    /\ (last.op \in {"updateTodo", "toggleTodo"}
           /\ last.args.id \notin Ids(last.preTodos)) =>
          last.raised = TODO_NOT_FOUND
    /\ (last.op = "updateTodo" /\ last.args.id \in Ids(last.preTodos)
           /\ InvalidChanges(last.args.updates)) =>
          last.raised \in {VALIDATION_FAILED, PlainError}
    /\ (last.op \in {"updateTodo", "toggleTodo"}
           /\ last.raised \in {TODO_NOT_FOUND, VALIDATION_FAILED, PlainError}) =>
          NoEffect

\* C11 witness: an invalid priority for an existing item was rejected
\* while a change-listener was registered
C11_Witness ==
    /\ last.op = "updateTodo"
    /\ last.args.id \in Ids(last.preTodos)
    /\ Has(last.args.updates, "priority")
    /\ last.args.updates.priority \notin TodoPriority
    /\ last.raised = PlainError
    /\ onTodoListChanged # NoListener
    /\ NoEffect

Complete(t) == t.complete
Incomplete(t) == ~t.complete

\* C12: a clearCompleted that returns leaves exactly the items that were
\* incomplete, unchanged and in their order, none of them complete, and
\* returns the number of items that were complete.
C12_ClearCompletedLeavesIncomplete ==
    (last.op = "clearCompleted" /\ last.raised = NoError) =>
        /\ todos = SelectSeq(last.preTodos, Incomplete)
        /\ \A i \in 1..Len(todos) : ~todos[i].complete
        /\ last.ret = Len(SelectSeq(last.preTodos, Complete))
        /\ Len(todos) + last.ret = Len(last.preTodos)

\* C12 witness: clearCompleted ran over a complete item that followed an
\* incomplete one
C12_Witness ==
    /\ last.op = "clearCompleted"
    /\ last.raised = NoError
    /\ Len(last.preTodos) = 2
    /\ ~last.preTodos[1].complete
    /\ last.preTodos[2].complete
    /\ last.ret = 1
    /\ todos = <<last.preTodos[1]>>

\* C13: in the end-to-end session, getTodoCount reports total 2 after the
\* two addTodo, total 2, completed 1, pending 1 after the toggleTodo of the
\* first item, and after clearCompleted exactly one item remains, with the
\* text "Call bank".
C13_EndToEnd ==
    /\ calls = 2 => getTodoCount(todos).total = 2
    /\ calls = 3 =>
          getTodoCount(todos) = [total |-> 2, completed |-> 1, pending |-> 1]
    /\ calls = 4 => Len(todos) = 1 /\ todos[1].text = CallBank

\* C13 witness: the session has run to the end of its clearCompleted
C13_Witness ==
    /\ calls = 4
    /\ last.op = "clearCompleted"
    /\ Len(last.preTodos) = 2
    /\ last.preTodos[1].text = BuyMilk
    /\ last.preTodos[1].complete
    /\ last.ret = 1
    /\ todos = <<last.preTodos[2]>>

\* C14: a listener slot holds the callback registered last, and a call
\* invokes no other: bindTodoListChanged / bindTodoOperation leave their
\* argument in the slot; every change-listener invocation of a call is one
\* of the callback in the slot, once for every commit whose write went
\* through; every operation-listener invocation is one of the callback in
\* its slot, once for an addTodo that returns; with an empty slot nothing
\* is invoked and a commit whose write goes through raises nothing.
C14_LastRegistrationWins ==
    /\ last.op = "bindTodoListChanged" => onTodoListChanged = last.args
    /\ last.op = "bindTodoOperation" => onTodoOperation = last.args
    /\ \A c \in 1..Len(last.changeLog) :
          last.changeLog[c].listener = onTodoListChanged
    /\ \A o \in 1..Len(last.opLog) :
          last.opLog[o].listener = onTodoOperation
    /\ Len(last.changeLog) =
          (IF onTodoListChanged = NoListener THEN 0 ELSE last.writes)
    /\ (last.op = "addTodo" /\ last.raised = NoError) =>
          Len(last.opLog) = (IF onTodoOperation = NoListener THEN 0 ELSE 1)
    /\ (onTodoListChanged = NoListener /\ last.writes > 0
           /\ last.failedWrites = 0) =>
          last.raised = NoError

\* C14 witness: A was registered on both slots, then B as change-listener,
\* and the commit of an addTodo invoked B, once
C14_Witness ==
    /\ calls = 2
    /\ last.op = "addTodo"
    /\ onTodoListChanged = "B"
    /\ onTodoOperation = "A"
    /\ Len(last.changeLog) = 1
    /\ last.changeLog[1].listener = "B"
    /\ Len(last.opLog) = 1
    /\ last.opLog[1].listener = "A"

\* C14 witness of the empty slot: a commit went through with no listener
\* registered
C14_WitnessNoListener ==
    /\ last.op = "addTodo"
    /\ onTodoListChanged = NoListener
    /\ last.writes = 1
    /\ last.raised = NoError
    /\ last.changeLog = <<>>

\* C15: the constructor raises nothing whatever the primary slot holds
\* (nothing, a text that is not JSON, JSON that is not an array, an array
\* with an invalid record) and also when the slot cannot be read; when the
\* slot is absent or cannot be read the collection starts empty.
C15_ConstructionNeverFails ==
    last.op = "constructor" =>
        /\ last.raised = NoError
        /\ (last.preStorage.kind = "absent" \/ last.args.readFails) =>
              todos = <<>>

\* C15 witness: a service was constructed over an array holding a valid
\* and an invalid record
C15_Witness ==
    /\ last.op = "constructor"
    /\ calls > 0
    /\ last.preStorage.kind = "array"
    /\ Len(last.preStorage.value) = 2
    /\ ~AllRecordsValid(last.preStorage.value)
    /\ last.raised = NoError

\* C15 witness of the read failure: a service was constructed over a slot
\* holding items that could not be read
C15_WitnessReadFails ==
    /\ last.op = "constructor"
    /\ last.args.readFails
    /\ last.preStorage.kind = "array"
    /\ last.preTodos # <<>>
    /\ todos = <<>>

\* C15 witness of the other contents: a service was constructed over a
\* text that is not JSON, and over JSON that is not an array
C15_WitnessNotJSON ==
    last.op = "constructor" /\ last.preStorage = NotJSON /\ todos = <<>>

C15_WitnessNotAnArray ==
    last.op = "constructor" /\ last.preStorage = NotAnArray /\ todos = <<>>

\* The payload is not parseable, or has no todos array
BadShape(data) ==
    \/ Has(data, "syntaxError")
    \/ ~Has(data, "todos")
    \/ data.todos.kind # "array"

\* C16: importTodos of a text that cannot be parsed, or whose top level has
\* no todos array, raises INVALID_DATA and leaves the collection and the
\* slot unchanged, writes nothing and invokes no listener.
C16_ImportRejectsBadShape ==
    (last.op = "importTodos" /\ BadShape(last.args.data)) =>
        /\ last.raised = INVALID_DATA
        /\ NoEffect

\* C16 witness: a payload whose todos is not an array was rejected by a
\* service holding items, with a change-listener registered
C16_Witness ==
    /\ last.op = "importTodos"
    /\ Has(last.args.data, "todos")
    /\ last.args.data.todos.kind # "array"
    /\ last.raised = INVALID_DATA
    /\ last.preTodos # <<>>
    /\ onTodoListChanged # NoListener

\* C16 witnesses of the other shapes: an unparseable text, a payload
\* without todos
C16_WitnessUnparseable ==
    /\ last.op = "importTodos"
    /\ Has(last.args.data, "syntaxError")
    /\ last.raised = INVALID_DATA

C16_WitnessNoTodos ==
    /\ last.op = "importTodos"
    /\ ~Has(last.args.data, "syntaxError")
    /\ ~Has(last.args.data, "todos")
    /\ last.raised = INVALID_DATA

ValidRecord(rec) == validateData(DataOfRecord(rec)).isValid

\* C17: importTodos of a well-shaped payload, with storage and listener
\* working, raises nothing, appends one item for every valid entry, in
\* order, after the existing items, in one commit, drops the invalid
\* entries and returns the number of valid entries.
C17_ImportDropsInvalidEntries ==
    (last.op = "importTodos" /\ ~BadShape(last.args.data)
        /\ ~last.writeFails /\ ~last.listenerThrows) =>
        LET valid == SelectSeq(last.args.data.todos.value, ValidRecord)
            n == Len(last.preTodos)
        IN /\ last.raised = NoError
           /\ last.ret = Len(valid)
           /\ Len(todos) = n + Len(valid)
           /\ SubSeq(todos, 1, n) = last.preTodos
           /\ \A i \in 1..Len(valid) : todos[n + i].text = Trim(valid[i].text)
           /\ last.writes = 1

\* A step of the restore fails: the backup cannot be parsed or has no todos
\* array, an entry is invalid, the write fails, the change-listener throws
RestoreFails ==
    \/ BadShape(last.args.backup)
    \/ ~AllRecordsValid(last.args.backup.todos.value)
    \/ last.writeFails
    \/ last.listenerThrows

\* C18: restoreFromBackup raises nothing, whatever the backup and whatever
\* the storage and the listener do: it returns false when a step failed
\* and true otherwise.
C18_RestoreNeverRaises ==
    last.op = "restoreFromBackup" =>
        /\ last.raised = NoError
        /\ last.ret \in BOOLEAN
        /\ last.ret = ~RestoreFails

\* C18 witness: the change-listener threw during a restore, which
\* returned false
C18_Witness ==
    /\ last.op = "restoreFromBackup"
    /\ last.listenerThrows
    /\ last.raised = NoError
    /\ last.ret = FALSE

\* C18 witnesses of the other outcomes: a failed write, an invalid entry,
\* a restore that went through
C18_WitnessWriteFails ==
    /\ last.op = "restoreFromBackup"
    /\ last.writeFails
    /\ last.ret = FALSE

C18_WitnessInvalidEntry ==
    /\ last.op = "restoreFromBackup"
    /\ ~BadShape(last.args.backup)
    /\ ~AllRecordsValid(last.args.backup.todos.value)
    /\ last.ret = FALSE

C18_WitnessRestored ==
    /\ last.op = "restoreFromBackup"
    /\ last.ret = TRUE
    /\ last.preTodos # <<>>
    /\ Len(todos) = 1

AcceptedText(text) == ~RejectedText(text)

\* C19: addMultipleTodos attempts exactly one write and invokes the
\* change-listener at most once, however many texts it accepts; when it
\* returns, the collection is the one before followed by one new item for
\* every valid text, in input order, with the trimmed text, the returned
\* todos are these new items, and the one write went through with one
\* invocation of a registered change-listener.
C19_AddManyCommitsOnce ==
    last.op = "addMultipleTodos" =>
        LET accepted == SelectSeq(last.args.texts, AcceptedText)
            n == Len(last.preTodos)
        IN /\ last.writes + last.failedWrites = 1
           /\ Len(last.changeLog) <= 1
           /\ last.raised = NoError =>
                 /\ Len(todos) = n + Len(accepted)
                 /\ SubSeq(todos, 1, n) = last.preTodos
                 /\ \A i \in 1..Len(accepted) :
                       /\ todos[n + i].text = Trim(accepted[i])
                       /\ todos[n + i].id \notin Ids(last.preTodos)
                 /\ last.ret = SubSeq(todos, n + 1, Len(todos))
                 /\ last.writes = 1
                 /\ Len(last.changeLog) =
                       (IF onTodoListChanged = NoListener THEN 0 ELSE 1)

\* C19 witness: a batch with an invalid text between two valid ones was
\* added to a service holding items, with a change-listener registered
C19_Witness ==
    /\ last.op = "addMultipleTodos"
    /\ Len(last.args.texts) = 3
    /\ RejectedText(last.args.texts[2])
    /\ last.preTodos # <<>>
    /\ Len(last.ret) = 2
    /\ Len(todos) = Len(last.preTodos) + 2
    /\ Len(last.changeLog) = 1

\* C19 witness of the empty batch: no text was accepted and the commit
\* was made
C19_WitnessNothingAccepted ==
    /\ last.op = "addMultipleTodos"
    /\ Len(last.args.texts) = 2
    /\ last.ret = <<>>
    /\ last.raised = NoError
    /\ last.writes = 1

\* C20: deleteMultipleTodos attempts exactly one write and invokes the
\* change-listener at most once, also when no id matches; when it returns,
\* the collection holds exactly the items whose id is not among the ids,
\* unchanged and in their order, the number of items removed is returned,
\* and the one write went through with one invocation of a registered
\* change-listener.
C20_DeleteManyCommitsOnce ==
    last.op = "deleteMultipleTodos" =>
        LET Named(t) == t.id \in last.args.ids
            NotNamed(t) == t.id \notin last.args.ids
        IN /\ last.writes + last.failedWrites = 1
           /\ Len(last.changeLog) <= 1
           /\ last.raised = NoError =>
                 /\ todos = SelectSeq(last.preTodos, NotNamed)
                 /\ last.ret = Len(SelectSeq(last.preTodos, Named))
                 /\ last.writes = 1
                 /\ Len(last.changeLog) =
                       (IF onTodoListChanged = NoListener THEN 0 ELSE 1)

\* C20 witness: the first of two items was removed together with an id
\* that matches nothing
C20_Witness ==
    /\ last.op = "deleteMultipleTodos"
    /\ Len(last.preTodos) = 2
    /\ last.args.ids = {last.preTodos[1].id, 0}
    /\ last.raised = NoError
    /\ last.ret = 1
    /\ todos = <<last.preTodos[2]>>
    /\ last.writes = 1

\* C20 witness of the commit without a match: no id matched, the slot was
\* written and the change-listener invoked
C20_WitnessNoMatch ==
    /\ last.op = "deleteMultipleTodos"
    /\ last.args.ids = {0}
    /\ last.preTodos # <<>>
    /\ last.raised = NoError
    /\ last.ret = 0
    /\ todos = last.preTodos
    /\ last.writes = 1
    /\ Len(last.changeLog) = 1


\* C21: a toggleAll over a collection of one or more items, with the
\* storage and the listener working, writes the slot exactly once and invokes
\* a registered change-listener exactly once.
C21_ToggleAllCommitsOnce ==
    (/\ last.op = "toggleAll"
     /\ Len(last.preTodos) >= 1
     /\ last.args.failing = {}
     /\ last.args.throwing = {}) =>
        /\ last.writes = 1
        /\ Len(last.changeLog) = (IF onTodoListChanged = NoListener THEN 0 ELSE 1)

\* C22: after a toggleAll(complete) none of whose writes failed, the
\* collection holds as many items as before, in the same order (text,
\* description, priority, dueDate and tags of every position are those
\* from before), every item has the complete flag asked for and the status
\* Completed when it is true, Pending when it is false.
C22_ToggleAllSetsEveryItem ==
    (last.op = "toggleAll" /\ last.failedWrites = 0) =>
        /\ last.raised = NoError
        /\ Len(todos) = Len(last.preTodos)
        /\ \A i \in 1..Len(todos) :
              /\ todos[i].complete = last.args.complete
              /\ todos[i].status =
                    (IF last.args.complete THEN COMPLETED ELSE PENDING)
              /\ todos[i].text = last.preTodos[i].text
              /\ todos[i].description = last.preTodos[i].description
              /\ todos[i].priority = last.preTodos[i].priority
              /\ todos[i].dueDate = last.preTodos[i].dueDate
              /\ todos[i].tags = last.preTodos[i].tags

\* C22 witness: toggleAll(false) ran over two items, the second complete
\* and Archived, and left it Pending
C22_Witness ==
    /\ last.op = "toggleAll"
    /\ ~last.args.complete
    /\ last.failedWrites = 0
    /\ Len(last.preTodos) = 2
    /\ last.preTodos[2].complete
    /\ last.preTodos[2].status = ARCHIVED
    /\ PendingIncomplete(todos[2])
    /\ todos[1].text # todos[2].text


\* What validateTodos reports for a collection
Reported(ts) == validateTodos([Machine EXCEPT !.todos = ts]).ret

\* C23: validateTodos changes nothing and invokes no listener; repairData
\* attempts a write exactly when validateTodos would report an item of the
\* collection, and a repairData that returns has removed exactly the
\* reported items, keeps the others in their order, returns the number
\* removed, and has written the slot and invoked a registered
\* change-listener once if it removed an item, not at all if it did not.
C23_RepairRemovesReported ==
    /\ last.op = "validateTodos" =>
          /\ NoEffect
          /\ last.raised = NoError
          /\ last.ret = Reported(todos)
    /\ last.op = "repairData" =>
          LET bad == Reported(last.preTodos)
              Good(t) == \A i \in 1..Len(bad) : bad[i] # t
              commits == IF bad = <<>> THEN 0 ELSE 1
          IN /\ last.writes + last.failedWrites = commits
             /\ bad = <<>> => NoEffect
             /\ last.raised = NoError =>
                   /\ todos = SelectSeq(last.preTodos, Good)
                   /\ last.ret = Len(bad)
                   /\ last.writes = commits
                   /\ Len(last.changeLog) =
                         (IF onTodoListChanged = NoListener THEN 0 ELSE commits)
                   /\ last.opLog = <<>>

\* C23 witness: repairData removed the one item of two that has an invalid
\* dueDate, with a change-listener registered
C23_Witness ==
    /\ last.op = "repairData"
    /\ last.raised = NoError
    /\ Len(last.preTodos) = 2
    /\ last.ret = 1
    /\ Len(todos) = 1
    /\ last.writes = 1
    /\ Len(last.changeLog) = 1

\* C23 witnesses of the other cases: repairData found nothing to remove in
\* a collection that is not empty; validateTodos reported an item
C23_WitnessNothingRemoved ==
    /\ last.op = "repairData"
    /\ last.raised = NoError
    /\ last.preTodos # <<>>
    /\ last.ret = 0
    /\ onTodoListChanged # NoListener

C23_WitnessReported ==
    /\ last.op = "validateTodos"
    /\ Len(last.ret) = 1
    /\ Len(todos) = 2


\* C24: in every state reached through the constructor, addTodo,
\* addMultipleTodos, updateTodo, toggleTodo, toggleAll, deleteTodo,
\* importTodos and restoreFromBackup, the text of every item is not empty
\* after trim and has at most 500 characters, validateTodos reports
\* nothing, and a repairData returns 0 without a commit.
C24_ReachableItemsAreValid ==
    /\ \A i \in 1..Len(todos) :
          /\ Len(Trim(todos[i].text)) >= 1
          /\ Len(Trim(todos[i].text)) <= MAX_TEXT_LENGTH
    /\ Reported(todos) = <<>>
    /\ last.op = "repairData" =>
          /\ last.raised = NoError
          /\ last.ret = 0
          /\ NoEffect


\* C25: with generateId never repeating a value, no two items of the
\* collection share an id in any state reached through addTodo,
\* addMultipleTodos, updateTodo, toggleTodo, toggleAll, deleteTodo,
\* importTodos (of the service's own export too) and restoreFromBackup;
\* the items an addTodo, addMultipleTodos or importTodos appends have ids
\* that no item had before the call, and the text of each is the trimmed
\* text it was created from.
C25_IdsAreUnique ==
    /\ \A i, j \in 1..Len(todos) : i # j => todos[i].id # todos[j].id
    /\ (last.op = "addTodo" /\ last.raised = NoError) =>
          /\ todos[Len(todos)].text = Trim(last.args.text)
          /\ todos[Len(todos)].id \notin Ids(last.preTodos)
    /\ (last.op = "addMultipleTodos" /\ last.raised = NoError) =>
          LET accepted == SelectSeq(last.args.texts, AcceptedText)
              n == Len(last.preTodos)
          IN /\ Len(todos) = n + Len(accepted)
             /\ \A i \in 1..Len(accepted) :
                   /\ todos[n + i].text = Trim(accepted[i])
                   /\ todos[n + i].id \notin Ids(last.preTodos)
    /\ (last.op = "importTodos" /\ last.raised = NoError) =>
          LET records == last.args.data.todos.value
              n == Len(last.preTodos)
          IN /\ Len(todos) = n + Len(records)
             /\ \A i \in 1..Len(records) :
                   /\ todos[n + i].text = Trim(records[i].text)
                   /\ todos[n + i].id \notin Ids(last.preTodos)

\* C25 witness: the service imported its own export of two items and holds
\* four items
C25_Witness ==
    /\ last.op = "importTodos"
    /\ last.raised = NoError
    /\ Len(last.preTodos) = 2
    /\ last.args.data.todos = Stored(JSONstringify(last.preTodos, now))
    /\ Len(todos) = 4

\* C25 witness of the creations: two texts of a batch were accepted after
\* an addTodo
C25_WitnessAdded ==
    /\ last.op = "addMultipleTodos"
    /\ last.raised = NoError
    /\ Len(last.ret) = 2
    /\ \E i \in 1..Len(last.preTodos) : last.preTodos[i].id >= FirstId


\* C26: for every collection, the pending count of the statistics is the
\* total minus the number of complete items, and the counts by status and
\* the counts by priority each add up to the total.
C26_StatisticsAddUp ==
    /\ last.op = "getTodoStatistics" =>
          LET s == last.ret
              done(t) == t.complete
          IN /\ s.total = Len(todos)
             /\ s.completed = Len(SelectSeq(todos, done))
             /\ s.pending = s.total - s.completed
             /\ s.byStatus[PENDING] + s.byStatus[COMPLETED]
                   + s.byStatus[ARCHIVED] = s.total
             /\ s.byPriority[LOW] + s.byPriority[MEDIUM]
                   + s.byPriority[HIGH] + s.byPriority[CRITICAL] = s.total
    /\ last.op = "getStatistics" =>
          LET s == last.ret
              done(t) == t.complete
          IN /\ s.total = Len(todos)
             /\ s.completed = Len(SelectSeq(todos, done))
             /\ s.pending = s.total - s.completed
             /\ s.statusDistribution[PENDING] + s.statusDistribution[COMPLETED]
                   + s.statusDistribution[ARCHIVED] = s.total
             /\ s.priorityDistribution[LOW] + s.priorityDistribution[MEDIUM]
                   + s.priorityDistribution[HIGH]
                   + s.priorityDistribution[CRITICAL] = s.total


\* C27: whatever the change-listener or the caller does to an array that
\* the service has handed to it (the argument of the change-listener, the
\* result of findTodos, searchTodos or sortTodos), appending, removing or
\* reordering, the collection of the service stays as it is.
C27_HandedArraysAreCopies ==
    [][MutateHanded => todos' = todos]_vars

\* C27 witness: the result of a searchTodos with an empty query, which
\* holds every item of the collection, was reversed by the caller
C27_Witness ==
    /\ last.op = "searchTodos"
    /\ Trim(last.args.query) = <<>>
    /\ last.mutations = 1
    /\ Len(todos) = 2
    /\ last.ret = <<todos[2], todos[1]>>

\* C27 witnesses of the other arrays: the argument of the change-listener
\* and the results of findTodos and sortTodos were changed
C27_WitnessListener ==
    /\ last.op = "addTodo"
    /\ last.mutations = 1
    /\ Len(last.changeLog) = 1
    /\ last.changeLog[1].arg # todos

C27_WitnessFindSort ==
    /\ last.op \in {"findTodos", "sortTodos"}
    /\ last.mutations = 1
    /\ todos # <<>>
    /\ last.ret = Append(todos, Intruder)


\* C28: from an empty store, under addTodo, addMultipleTodos, toggleTodo,
\* toggleAll, deleteTodo, deleteMultipleTodos and clearCompleted, every
\* item of the collection is Pending and incomplete or Completed and
\* complete.
C28_StatusFollowsComplete ==
    \A i \in 1..Len(todos) :
        PendingIncomplete(todos[i]) \/ CompletedComplete(todos[i])

\* C28 witness: of the items of the collection, one was toggled twice and
\* is Pending and incomplete again, next to one that a toggleAll completed
\* before
C28_Witness ==
    /\ last.op = "toggleTodo"
    /\ last.raised = NoError
    /\ calls = 4
    /\ Target # 0
    /\ CompletedComplete(last.preTodos[Target])
    /\ PendingIncomplete(todos[Target])
    /\ \E i \in 1..Len(todos) : CompletedComplete(todos[i])


\* C29: an updateTodo that returns leaves the item, and returns it, with
\* the content (text, description, complete, status, priority, dueDate,
\* tags) that Todo.update gives the item for the same changes; so complete
\* true alone takes a Pending item to Completed and complete false alone a
\* Completed item to Pending.
C29_UpdateGoesThroughEntityUpdate ==
    (last.op = "updateTodo" /\ last.raised = NoError) =>
        LET expected == update(last.preTodos[Target], last.args.updates, now)
        IN /\ Content(last.ret) = Content(expected)
           /\ Content(todos[Target]) = Content(expected)


\* The operation-listener was invoked once for each of the items, in
\* order, with the tag, each time after the one commit of the call: the
\* slot written, the change-listener, if any, invoked
ReportedAfterCommit(items, tag) ==
    IF onTodoOperation = NoListener THEN last.opLog = <<>>
    ELSE /\ Len(last.opLog) = Len(items)
         /\ \A i \in 1..Len(items) :
               /\ last.opLog[i].listener = onTodoOperation
               /\ last.opLog[i].todo = items[i]
               /\ last.opLog[i].operation = tag
               /\ last.opLog[i].writes = 1
               /\ last.opLog[i].commits =
                     (IF onTodoListChanged = NoListener THEN 0 ELSE 1)
         /\ last.writes = 1
         /\ Len(last.changeLog) = (IF onTodoListChanged = NoListener THEN 0 ELSE 1)

\* C30: an addTodo, updateTodo or deleteTodo that succeeds invokes the
\* registered operation-listener exactly once, with the item added, the
\* updated item or the item removed and the tag "add", "update" or
\* "delete", after the slot was written and the change-listener invoked;
\* addMultipleTodos and deleteMultipleTodos invoke it once for every item
\* accepted or removed, in order, all after their one commit.
C30_OperationReportedAfterCommit ==
    /\ (last.op = "addTodo" /\ last.raised = NoError) =>
          ReportedAfterCommit(<<todos[Len(todos)]>>, "add")
    /\ (last.op = "updateTodo" /\ last.raised = NoError) =>
          ReportedAfterCommit(<<todos[Target]>>, "update")
    /\ (last.op = "deleteTodo" /\ last.raised = NoError /\ Target # 0) =>
          ReportedAfterCommit(<<last.preTodos[Target]>>, "delete")
    /\ (last.op = "addMultipleTodos" /\ last.raised = NoError) =>
          ReportedAfterCommit(
              SubSeq(todos, Len(last.preTodos) + 1, Len(todos)), "add")
    /\ (last.op = "deleteMultipleTodos" /\ last.raised = NoError) =>
          LET Named(t) == t.id \in last.args.ids
          IN ReportedAfterCommit(SelectSeq(last.preTodos, Named), "delete")

\* C30 witness: with both listeners registered, an addTodo was reported
\* once after its commit
C30_Witness ==
    /\ last.op = "addTodo"
    /\ last.raised = NoError
    /\ onTodoListChanged # NoListener
    /\ Len(last.opLog) = 1
    /\ last.opLog[1].operation = "add"
    /\ last.opLog[1].commits = 1

\* C30 witnesses of the other operations: an update, a removal, a batch of
\* two accepted texts and a removal of two items were reported
C30_WitnessUpdate ==
    /\ last.op = "updateTodo"
    /\ last.raised = NoError
    /\ Len(last.opLog) = 1
    /\ last.opLog[1].commits = 1

C30_WitnessDelete ==
    /\ last.op = "deleteTodo"
    /\ last.raised = NoError
    /\ Len(last.opLog) = 1
    /\ last.opLog[1].commits = 1

C30_WitnessBatches ==
    /\ last.op \in {"addMultipleTodos", "deleteMultipleTodos"}
    /\ last.raised = NoError
    /\ Len(last.opLog) = 2
    /\ last.opLog[2].commits = 1


\* A restore that returned true, and the records of its snapshot
Restored ==
    /\ last.op = "restoreFromBackup"
    /\ last.raised = NoError
    /\ last.ret = TRUE

SnapshotRecords == last.args.backup.todos.value

\* The content fields a record of a snapshot states, as the entity holds
\* them (text trimmed, tags normalised, a null dueDate is no dueDate)
HasContentOf(todo, rec) ==
    /\ todo.text = Trim(rec.text)
    /\ Has(rec, "complete") => todo.complete = rec.complete
    /\ Has(rec, "status") => todo.status = rec.status
    /\ Has(rec, "priority") => todo.priority = rec.priority
    /\ Has(rec, "description") => todo.description = Some(rec.description)
    /\ Has(rec, "tags") =>
          todo.tags = Dedupe([i \in 1..Len(rec.tags) |-> ToLowerCase(Trim(rec.tags[i]))])
    /\ todo.dueDate =
          IF Has(rec, "dueDate") /\ rec.dueDate # JSONnull
          THEN Some(ParseISO(rec.dueDate)) ELSE None

\* The snapshot of the last call is the export of the collection the call
\* started from
SnapshotOfPreTodos ==
    \E t \in 0..MaxTime :
        last.args.backup.todos = Stored(JSONstringify(last.preTodos, t))

C31_SnapshotItems ==
    Restored =>
        /\ Len(todos) = Len(SnapshotRecords)
        /\ \A i \in 1..Len(todos) : HasContentOf(todos[i], SnapshotRecords[i])

C31_NoneRemain == Restored => Ids(todos) \cap Ids(last.preTodos) = {}

C31_SlotHolds == Restored => storage = Stored(JSONstringify(todos, now))

C31_RoundTrip ==
    Restored /\ SnapshotOfPreTodos =>
        /\ Len(todos) = Len(last.preTodos)
        /\ \A i \in 1..Len(todos) : Content(todos[i]) = Content(last.preTodos[i])

\* C31: when restoreFromBackup returns true, the collection is exactly the
\* items of the snapshot, in the order of the snapshot and with their
\* content, no item from before the restore remains, and the primary slot
\* holds the collection; restoring the snapshot of the current collection
\* gives a collection of the same count and content.
C31_RestoreGivesSnapshot ==
    /\ C31_SnapshotItems
    /\ C31_NoneRemain
    /\ C31_SlotHolds
    /\ C31_RoundTrip


\* The ids of a collection, in its order
IdSeq(ts) == [i \in 1..Len(ts) |-> ts[i].id]

\* The items of ts that are still in the collection, in the order of ts
Remaining(ts) ==
    LET kept(t) == t.id \in Ids(todos)
    IN SelectSeq(ts, kept)

\* C32: the collection keeps insertion order.  addTodo and addMultipleTodos
\* leave the items they found where they were and put the new ones behind
\* them; updateTodo, toggleTodo and toggleAll leave every item at its
\* position; deleteTodo, deleteMultipleTodos and clearCompleted leave the
\* remaining items in their order; sortTodos leaves the collection as it is.
\* (updateTodo puts a new object where the item was, see C1: the position
\* is told by the items around it and by the item the call returned.)
C32_InsertionOrderIsKept ==
    /\ last.op \in {"addTodo", "addMultipleTodos"} =>
          /\ Len(last.preTodos) <= Len(todos)
          /\ SubSeq(todos, 1, Len(last.preTodos)) = last.preTodos
          /\ \A i \in (Len(last.preTodos) + 1)..Len(todos) :
                todos[i].id \notin Ids(last.preTodos)
    /\ last.op \in {"updateTodo", "toggleTodo"} =>
          /\ Len(todos) = Len(last.preTodos)
          /\ \A i \in 1..Len(todos) : i # Target => todos[i] = last.preTodos[i]
          /\ last.raised = NoError => todos[Target] = last.ret
    /\ last.op = "toggleAll" =>
          /\ Len(todos) = Len(last.preTodos)
          /\ \A i \in 1..Len(todos) : todos[i].text = last.preTodos[i].text
    /\ last.op \in {"deleteTodo", "deleteMultipleTodos", "clearCompleted"} =>
          /\ Ids(todos) \subseteq Ids(last.preTodos)
          /\ todos = Remaining(last.preTodos)
    /\ last.op = "sortTodos" => todos = last.preTodos

\* C32 witness: sortTodos returned the items of the collection in another
\* order than the collection has them
C32_Witness ==
    /\ last.op = "sortTodos"
    /\ Len(todos) = 2
    /\ IdSeq(last.ret) = <<todos[2].id, todos[1].id>>

\* C32 witnesses of the other cases: an item was added behind two, the first
\* of two items was changed, the first of two items was removed
C32_WitnessAdded ==
    /\ last.op = "addTodo"
    /\ last.raised = NoError
    /\ Len(last.preTodos) = 2
    /\ Len(todos) = 3

C32_WitnessChanged ==
    /\ last.op \in {"updateTodo", "toggleTodo"}
    /\ last.raised = NoError
    /\ Len(todos) = 2
    /\ todos[1] # last.preTodos[1]
    /\ todos[2] = last.preTodos[2]

C32_WitnessRemoved ==
    /\ last.op \in {"deleteTodo", "deleteMultipleTodos", "clearCompleted"}
    /\ last.raised = NoError
    /\ Len(last.preTodos) = 2
    /\ todos = <<last.preTodos[2]>>


\* The operations that only read
ReadOnlyOps ==
    {"getTodo", "findTodos", "searchTodos", "getTodosByStatus",
     "getTodosByPriority", "sortTodos", "getTodoCount", "getStatistics",
     "exportTodos", "validateTodos"}

\* C33: the operations that only read (getTodo, findTodos, searchTodos,
\* getTodosByStatus, getTodosByPriority, sortTodos, getTodoCount,
\* getStatistics, exportTodos, validateTodos) leave the collection with its
\* content and order, leave both slots as they are and invoke neither
\* listener.
C33_ReadOnlyOpsChangeNothing ==
    last.op \in ReadOnlyOps =>
        /\ last.raised = NoError
        /\ todos = last.preTodos
        /\ storage = last.preStorage
        /\ backupStorage = last.preBackup
        /\ last.writes = 0
        /\ last.changeLog = <<>>
        /\ last.opLog = <<>>

\* C33 witness: exportTodos has run on a service with both listeners
\* registered, a collection of two items and a written primary slot
C33_Witness ==
    /\ last.op = "exportTodos"
    /\ onTodoListChanged # NoListener
    /\ onTodoOperation # NoListener
    /\ Len(todos) = 2
    /\ storage # Absent

\* C33 witnesses: a query has returned items of such a service, getTodo
\* has found an item, validateTodos has reported an item
C33_WitnessQuery ==
    /\ last.op \in QueryOps
    /\ onTodoListChanged # NoListener
    /\ last.ret # <<>>

C33_WitnessGet ==
    /\ last.op = "getTodo"
    /\ onTodoListChanged # NoListener
    /\ last.ret # JSONnull

C33_WitnessValidate ==
    /\ last.op = "validateTodos"
    /\ onTodoListChanged # NoListener
    /\ last.ret # <<>>


\* a <= b and a >= b on Dates: false when either is an Invalid Date
DateLe(a, b) == a # InvalidDate /\ b # InvalidDate /\ a <= b
DateGe(a, b) == a # InvalidDate /\ b # InvalidDate /\ a >= b

\* An item satisfies every criterion that is present: status and priority
\* by membership, the completion flag, a tag in common whatever the case,
\* a dueDate that is not after dueBefore and not before dueAfter, the text
\* searched for somewhere in the text, the description or a tag
Satisfies(todo, criteria) ==
    /\ Has(criteria, "status") => todo.status \in criteria.status
    /\ Has(criteria, "priority") => todo.priority \in criteria.priority
    /\ Has(criteria, "complete") => todo.complete = criteria.complete
    /\ Has(criteria, "tags") =>
          \E tag \in criteria.tags : \E i \in 1..Len(todo.tags) :
              ToLowerCase(todo.tags[i]) = ToLowerCase(tag)
    /\ Has(criteria, "dueBefore") =>
          todo.dueDate # None /\ DateLe(todo.dueDate[1], criteria.dueBefore)
    /\ Has(criteria, "dueAfter") =>
          todo.dueDate # None /\ DateGe(todo.dueDate[1], criteria.dueAfter)
    /\ Has(criteria, "searchText") =>
          LET q == ToLowerCase(criteria.searchText)
          IN \/ Includes(ToLowerCase(todo.text), q)
             \/ todo.description # None
                /\ Includes(ToLowerCase(todo.description[1]), q)
             \/ \E i \in 1..Len(todo.tags) : Includes(ToLowerCase(todo.tags[i]), q)

\* The criteria of `criteria` that are named in `names`
Only(criteria, names) == [k \in (DOMAIN criteria) \cap names |-> criteria[k]]

\* findTodos has returned and the caller has not touched the array
Found == last.op = "findTodos" /\ last.mutations = 0

C34_Subsequence ==
    Found =>
        LET ok(todo) == Satisfies(todo, last.args.filter)
        IN last.ret = SelectSeq(last.preTodos, ok)

C34_Anded ==
    Found =>
        \A names \in SUBSET DOMAIN last.args.filter :
            last.ret =
                filterTodos(filterTodos(last.preTodos, Only(last.args.filter, names)),
                            Only(last.args.filter, (DOMAIN last.args.filter) \ names))

C34_NoCriteria ==
    Found /\ last.args.filter = NoCriteria => last.ret = last.preTodos

\* C34: filterTodos returns exactly the items of its input that satisfy
\* every criterion present, in the order of the input; filtering by two
\* criteria is filtering by one and then by the other; without criteria it
\* returns the input, same order and content.
C34_FilterIsAndedSubsequence ==
    /\ C34_Subsequence
    /\ C34_Anded
    /\ C34_NoCriteria


\* C35: searchTodos(query) returns the same items in the same order as
\* filterTodos with the one criterion searchText = query, for every query:
\* empty, of white space only, with white space at either end.
C35_SearchIsFilterBySearchText ==
    last.op = "searchTodos" /\ last.mutations = 0 =>
        last.ret = filterTodos(last.preTodos, [searchText |-> last.args.query])


\* C36: backupTodos returns the export snapshot of the current collection
\* and writes it to the secondary slot and nowhere else: the collection and
\* the primary slot stay as they are and no listener is invoked; when the
\* write of the secondary slot fails, nothing is raised, the snapshot is
\* returned all the same and the secondary slot keeps what it held.
C36_BackupWritesSecondarySlotOnly ==
    last.op = "backupTodos" =>
        /\ last.raised = NoError
        /\ last.ret = [version |-> CURRENT_VERSION,
                       timestamp |-> ToISO(now),
                       todos |-> Stored(JSONstringify(todos, now))]
        /\ todos = last.preTodos
        /\ storage = last.preStorage
        /\ last.writes = 0
        /\ last.changeLog = <<>>
        /\ last.opLog = <<>>
        /\ backupStorage = IF last.args.backupFails THEN last.preBackup
                           ELSE Snapshot(last.ret)

\* C36 witness: the write of the secondary slot failed during a backup of a
\* collection with items, on a service with both listeners registered and
\* a secondary slot that held an earlier snapshot
C36_Witness ==
    /\ last.op = "backupTodos"
    /\ last.args.backupFails
    /\ todos # <<>>
    /\ onTodoListChanged # NoListener
    /\ onTodoOperation # NoListener
    /\ backupStorage # Absent

\* C36 witness: a backup replaced the earlier snapshot of the secondary slot
C36_WitnessWritten ==
    /\ last.op = "backupTodos"
    /\ ~last.args.backupFails
    /\ last.preBackup # Absent
    /\ backupStorage # last.preBackup


\* C37: on a service that started from an empty store, whenever a call has
\* returned without raising, the primary slot is absent and the collection
\* empty, or the primary slot holds the serialization of the collection.
C37_MemoryAndStoreAgree ==
    last.op \notin {"none", "constructor"} /\ last.raised = NoError =>
        \/ storage = Absent /\ todos = <<>>
        \/ \E t \in 0..MaxTime : storage = Stored(JSONstringify(todos, t))


\* The c-th invocation of the change-listener by the last call raised:
\* the call fails there with STORAGE_ERROR, the write of that commit went
\* through, the collection and the primary slot hold what was committed,
\* and the operation-listener is not invoked for that commit
FailsAtListener(c) ==
    /\ last.raised = STORAGE_ERROR
    /\ c = Len(last.changeLog)
    /\ last.failedWrites = 0
    /\ last.changeLog[c].sawTodos = last.changeLog[c].arg
    /\ last.changeLog[c].sawStorage =
          Stored(JSONstringify(last.changeLog[c].arg, now))
    /\ todos = last.changeLog[c].arg
    /\ storage = last.changeLog[c].sawStorage
    /\ \A i \in 1..Len(last.opLog) : last.opLog[i].commits < c

\* C38: when the registered change-listener raises during a commit, the
\* operation that was committing fails with STORAGE_ERROR although the
\* write went through: the collection and the primary slot hold the
\* mutation, and the operation-listener is not invoked for it.
C38_ThrowingListenerFailsTheCall ==
    \A c \in 1..Len(last.changeLog) :
        last.changeLog[c].threw => FailsAtListener(c)


\* The slot does not hold a JSON array, or holds one with a record that
\* fails the validation of the entity
Unloadable(slot) ==
    /\ slot.kind # "absent"
    /\ slot.kind = "array" => ~AllRecordsValid(slot.value)

\* C39: load is all or nothing.  A service constructed over a primary slot
\* that is not a JSON array, or that holds a record failing the validation
\* of the entity, starts with an empty collection, the valid records
\* discarded too, and leaves the slot as it is; the slot keeps that content
\* until a commit writes it, and then holds the new collection only.
C39_LoadIsAllOrNothing ==
    /\ (last.op = "constructor" /\ Unloadable(last.preStorage)) =>
          /\ todos = <<>>
          /\ storage = last.preStorage
    /\ (last.op \notin {"none", "constructor"} /\ Unloadable(last.preStorage)) =>
          IF last.writes = 0 THEN storage = last.preStorage
          ELSE storage = Stored(JSONstringify(todos, now))

\* C39 witness: a service was constructed over an array holding a valid and
\* an invalid record
C39_Witness ==
    /\ last.op = "constructor"
    /\ last.preStorage.kind = "array"
    /\ Len(last.preStorage.value) = 2
    /\ validateData(DataOfRecord(last.preStorage.value[1])).isValid
    /\ ~validateData(DataOfRecord(last.preStorage.value[2])).isValid

\* C39 witnesses: the first commit over such a slot wrote the one new item;
\* a call whose write failed left the slot as it was
C39_WitnessOverwritten ==
    /\ last.op = "addTodo"
    /\ last.preStorage.kind = "array"
    /\ Unloadable(last.preStorage)
    /\ last.writes = 1
    /\ Len(todos) = 1
    /\ Len(storage.value) = 1

C39_WitnessKept ==
    /\ last.op = "addTodo"
    /\ Unloadable(last.preStorage)
    /\ last.writeFails
    /\ storage = last.preStorage

====
